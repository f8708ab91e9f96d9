------------------------------ MODULE Console ------------------------------
(***************************************************************************)
(* The console, kernel/graphics/console.c: the line being typed, kept in a *)
(* fixed NUL-terminated buffer, and the last lines printed.                *)
(***************************************************************************)
EXTENDS Integers, Sequences

CONSTANTS
  CONSOLE_MAX_HISTORY,   \* lines kept (5)
  CONSOLE_LINE_LEN,      \* bytes of a line, NUL included (64)
  CONSOLE_PROMPT_MAX,    \* bytes of the buffer, NUL included (128)
  Printable              \* the characters 32 .. 126

BACKSPACE == "BS"
NEWLINE   == "\n"
NUL       == "NUL"

ASSUME ConsoleAssumption ==
  /\ CONSOLE_MAX_HISTORY \in Nat /\ CONSOLE_MAX_HISTORY > 1
  /\ CONSOLE_LINE_LEN \in Nat /\ CONSOLE_LINE_LEN > 3
  /\ CONSOLE_PROMPT_MAX \in Nat /\ CONSOLE_PROMPT_MAX > 1
  /\ Printable \subseteq STRING \ {BACKSPACE, NEWLINE, NUL}

Cell == 0 .. CONSOLE_PROMPT_MAX - 1
Row  == 0 .. CONSOLE_MAX_HISTORY - 1

VARIABLES
  visible,         \* the overlay is drawn
  history,         \* [Row -> the characters of the line]
  history_count,   \* rows in use
  prompt_buf,      \* [Cell -> a character or NUL]
  prompt_len       \* characters typed

lineVars    == <<prompt_buf, prompt_len>>
historyVars == <<history, history_count>>
consoleVars == <<visible, historyVars, lineVars>>

ConsoleTypeOK ==
  /\ visible \in BOOLEAN
  /\ history_count \in 0 .. CONSOLE_MAX_HISTORY
  /\ prompt_buf \in [Cell -> Printable \cup {NUL}]
  /\ prompt_len \in Cell
  /\ DOMAIN history = Row
  /\ \A r \in Row : Len(history[r]) < CONSOLE_LINE_LEN

(* What a line keeps of a message.                                         *)
Fit(msg) == SubSeq(msg, 1, IF Len(msg) < CONSOLE_LINE_LEN THEN Len(msg) ELSE CONSOLE_LINE_LEN - 1)

(* The string a C function reads in the buffer: up to the first NUL.       *)
CString(buf) ==
  LET n == CHOOSE m \in Cell : buf[m] = NUL /\ \A k \in 0 .. m - 1 : buf[k] # NUL
  IN [i \in 1 .. n |-> buf[i - 1]]

(* console_init has printed its two lines.                                 *)
console_init(line1, line2) ==
  /\ visible = TRUE
  /\ history = [r \in Row |-> CASE r = 0 -> Fit(line1) [] r = 1 -> Fit(line2) [] OTHER -> << >>]
  /\ history_count = 2
  /\ prompt_buf = [c \in Cell |-> NUL]
  /\ prompt_len = 0

console_toggle ==
  /\ visible' = ~visible
  /\ UNCHANGED <<historyVars, lineVars>>

(* console_print: the next free row, or all rows move up.                  *)
MutShiftUp(msg) ==       \* from the bottom: every row becomes a copy
  /\ history' = [r \in Row |-> IF r = CONSOLE_MAX_HISTORY - 1 THEN Fit(msg)
                               ELSE history[CONSOLE_MAX_HISTORY - 1]]
  /\ UNCHANGED history_count
ShiftUp(msg) ==
  /\ history' = [r \in Row |-> IF r = CONSOLE_MAX_HISTORY - 1 THEN Fit(msg) ELSE Fit(history[r + 1])]
  /\ UNCHANGED history_count
console_print(msg) ==
  IF history_count < CONSOLE_MAX_HISTORY
  THEN /\ history' = [history EXCEPT ![history_count] = Fit(msg)]
       /\ history_count' = history_count + 1
  ELSE ShiftUp(msg)

(* console_handle_char, by the kind of character.                          *)
MutErase ==              \* the erased character stays in the buffer
  /\ prompt_len > 0
  /\ prompt_len' = prompt_len - 1
  /\ UNCHANGED <<visible, historyVars, prompt_buf>>
Erase ==
  /\ prompt_len > 0
  /\ prompt_len' = prompt_len - 1
  /\ prompt_buf' = [prompt_buf EXCEPT ![prompt_len - 1] = NUL]
  /\ UNCHANGED <<visible, historyVars>>

MutHasCell == prompt_len < CONSOLE_PROMPT_MAX     \* no cell for the NUL
HasCell == prompt_len + 1 < CONSOLE_PROMPT_MAX

Insert(c) ==
  /\ HasCell
  /\ prompt_buf' = [prompt_buf EXCEPT ![prompt_len] = c, ![prompt_len + 1] = NUL]
  /\ prompt_len' = prompt_len + 1
  /\ UNCHANGED <<visible, historyVars>>

(* A line is entered: it is printed behind "> " and handed to the          *)
(* interpreter, then the buffer is emptied.                                *)
LogEntry(line) ==
  <<">", " ">> \o SubSeq(line, 1, IF Len(line) < CONSOLE_LINE_LEN - 3 THEN Len(line)
                                                                       ELSE CONSOLE_LINE_LEN - 3)
EnterLine ==
  /\ prompt_len > 0
  /\ console_print(LogEntry(CString(prompt_buf)))
  /\ UNCHANGED <<visible, lineVars>>
MutClearLine ==          \* the length is reset, the text is not
  /\ prompt_len' = 0
  /\ UNCHANGED prompt_buf
ClearLine ==
  /\ prompt_len' = 0
  /\ prompt_buf' = [prompt_buf EXCEPT ![0] = NUL]

(* Keys that change nothing: Enter or Backspace on an empty line, a full   *)
(* line, a control character.                                              *)
Ignored(c) == \/ c \in {BACKSPACE, NEWLINE} /\ prompt_len = 0
              \/ c \in Printable /\ ~HasCell
              \/ c \notin Printable \cup {BACKSPACE, NEWLINE}
=============================================================================
