----------------------------- MODULE ReplProofs -----------------------------
(***************************************************************************)
(* Theorems about the console and the interpreter behind it, for every     *)
(* size of the line, the rows and the buffer, every script and every       *)
(* sequence of keys.  The inductive invariant is ConsoleInv with LineAsTyped and *)
(* HistoryIsTail: that the buffer is a string of prompt_len characters is  *)
(* what makes the string read from it the line as typed, and that line is  *)
(* what is printed and evaluated.                                          *)
(***************************************************************************)
EXTENDS Repl, SerpentCProofs

(* The string in the buffer, when it is one, is its first prompt_len       *)
(* characters (console.c:61-92).                                           *)
LEMMA CStringIs ==
  ASSUME NEW buf \in [Cell -> Printable \cup {NUL}], NEW len \in Cell,
         \A c \in Cell : c < len => buf[c] # NUL, buf[len] = NUL
  PROVE  /\ CString(buf) = [i \in 1 .. len |-> buf[i - 1]]
         /\ CString(buf) \in Seq(Printable)
         /\ Len(CString(buf)) = len
<1> DEFINE P(m) == m \in Cell /\ buf[m] = NUL /\ \A k \in 0 .. m - 1 : buf[k] # NUL
<1>1. len \in Nat /\ CONSOLE_PROMPT_MAX \in Nat
  BY ConsoleAssumption DEF Cell
<1>2. \A k \in 0 .. len - 1 : k \in Cell /\ k < len
  BY <1>1 DEF Cell
<1>3. P(len)
  BY <1>2
<1>4. \A m \in Cell : P(m) => m = len
  <2> SUFFICES ASSUME NEW m \in Cell, P(m) PROVE m = len
    OBVIOUS
  <2>1. m \in Nat
    BY <1>1 DEF Cell
  <2>2. ~(m < len)
    OBVIOUS
  <2>3. ~(len < m)
    <3>1. len < m => len \in 0 .. m - 1
      BY <1>1, <2>1
    <3> QED BY <3>1
  <2> QED BY <1>1, <2>1, <2>2, <2>3
<1>5. (CHOOSE m \in Cell : buf[m] = NUL /\ \A k \in 0 .. m - 1 : buf[k] # NUL) = len
  BY <1>3, <1>4
<1>6. CString(buf) = [i \in 1 .. len |-> buf[i - 1]]
  BY <1>5, Zenon DEF CString
<1>7. \A i \in 1 .. len : buf[i - 1] \in Printable
  <2> TAKE i \in 1 .. len
  <2>1. i - 1 \in Cell /\ i - 1 < len
    BY <1>1 DEF Cell
  <2> QED BY <2>1
<1>8. [i \in 1 .. len |-> buf[i - 1]] \in [1 .. len -> Printable]
  BY <1>7
<1> QED BY <1>1, <1>6, <1>8

(* A line that fits the buffer is a script: what it names are names.       *)
LEMMA LineIsScript ==
  ASSUME NEW s \in Seq(Printable), Len(s) < CONSOLE_PROMPT_MAX
  PROVE  s \in Script
<1>1. s \in Seq(STRING)
  <2> DEFINE S == STRING
  <2>1. Printable \subseteq S
    BY ConsoleAssumption, Zenon
  <2> HIDE DEF S
  <2>2. \A i \in 1 .. Len(s) : s[i] \in S
    BY <2>1
  <2> QED BY <2>2, SeqOver DEF S
<1>2. ASSUME NEW t \in Tokens(s), t.type = "IDENTIFIER"
      PROVE  t.text \in Name
  <2>1. PICK p \in 1 .. Len(s) + 1 : t = lexer_next(s, p)
    BY DEF Tokens
  <2>2. t.next \in p .. Len(s) + 1
    BY <1>1, <2>1, TokenIs
  <2>3. PICK i \in p .. t.next - 1 : /\ t.text = SubSeq(s, i, t.next - 1)
                                     /\ s[i] \in Alpha
                                     /\ \A r \in i .. t.next - 1 : s[r] \in Alnum
    BY <1>1, <1>2, <2>1, TokenIs
  <2>4. i \in 1 .. Len(s) + 1 /\ t.next \in i .. Len(s) + 1 /\ t.next > i
    BY <2>1, <2>2, <2>3
  <2>5. \A r \in i .. t.next - 1 : s[r] \in Printable \cap Alnum
    BY <2>3, <2>4
  <2>6. t.text \in Seq(Printable \cap Alnum)
    BY <1>1, <2>3, <2>4, <2>5, PieceIn
  <2>7. Len(t.text) = t.next - i /\ t.text[1] = s[i]
    BY <2>3, <2>4
  <2>8. Len(t.text) \in 1 .. CONSOLE_PROMPT_MAX - 1
    BY <2>4, <2>7, ConsoleAssumption
  <2>9. t.text \in [1 .. Len(t.text) -> Printable \cap Alnum]
    BY <2>6
  <2> QED BY <2>3, <2>7, <2>8, <2>9, ReplAssumption
<1> QED BY <1>1, <1>2 DEF Script

-----------------------------------------------------------------------------
(* The rows.                                                               *)

(* A row holds what fits of a message, and holds all of what fits          *)
(* (console.c:38-41, 47-50).                                               *)
LEMMA FitIs ==
  ASSUME NEW msg \in Seq(Glyph)
  PROVE  /\ Fit(msg) \in Seq(Glyph)
         /\ Len(Fit(msg)) < CONSOLE_LINE_LEN
         /\ Len(msg) < CONSOLE_LINE_LEN => Fit(msg) = msg
<1> DEFINE n == IF Len(msg) < CONSOLE_LINE_LEN THEN Len(msg) ELSE CONSOLE_LINE_LEN - 1
<1>1. n \in 0 .. Len(msg) /\ n < CONSOLE_LINE_LEN
  BY ConsoleAssumption
<1>2. Fit(msg) = SubSeq(msg, 1, n)
  BY DEF Fit
<1>3. Len(msg) < CONSOLE_LINE_LEN => n = Len(msg)
  OBVIOUS
<1> HIDE DEF n
<1>4. SubSeq(msg, 1, n) \in Seq(Glyph) /\ Len(SubSeq(msg, 1, n)) = n
  BY <1>1
<1>5. SubSeq(msg, 1, Len(msg)) = msg
  OBVIOUS
<1> QED BY <1>1, <1>2, <1>3, <1>4, <1>5

RowsOK == history \in [Row -> Seq(Glyph)] /\ \A r \in Row : Len(history[r]) < CONSOLE_LINE_LEN

(* Printing a message makes it the last of the rows, which stay the last   *)
(* lines printed, oldest first (console.c:33-59).                          *)
LEMMA PrintKeepsTail ==
  ASSUME RowsOK, history_count \in 0 .. CONSOLE_MAX_HISTORY, printed \in Seq(Seq(Glyph)), HistoryIsTail,
         NEW msg \in Seq(Glyph), console_print(msg), printed' = Append(printed, msg)
  PROVE  /\ RowsOK' /\ history_count' \in 0 .. CONSOLE_MAX_HISTORY
         /\ printed' \in Seq(Seq(Glyph)) /\ HistoryIsTail'
<1> DEFINE N == Len(printed)
           M == CONSOLE_MAX_HISTORY
<1>1. M \in Nat /\ M > 1 /\ N \in Nat /\ history_count \in 0 .. M
  BY ConsoleAssumption
<1>2. Fit(msg) \in Seq(Glyph) /\ Len(Fit(msg)) < CONSOLE_LINE_LEN
  BY FitIs
<1>3. /\ printed' \in Seq(Seq(Glyph)) /\ Len(printed') = N + 1 /\ printed'[N + 1] = msg
      /\ \A i \in 1 .. N : printed'[i] = printed[i]
  OBVIOUS
<1>4. \A r \in Row : r < history_count => history[r] = Fit(printed[N - history_count + r + 1])
  BY DEF HistoryIsTail
<1>5. history_count = IF N < M THEN N ELSE M
  BY DEF HistoryIsTail
<1>6. CASE history_count < M
  <2>1. history' = [history EXCEPT ![history_count] = Fit(msg)] /\ history_count' = history_count + 1
    BY <1>6 DEF console_print
  <2>2. history_count \in Row /\ N = history_count
    BY <1>1, <1>5, <1>6 DEF Row
  <2>3. \A r \in Row : history'[r] = IF r = history_count THEN Fit(msg) ELSE history[r]
    BY <2>1 DEF RowsOK
  <2>4. RowsOK'
    BY <1>2, <2>1, <2>3 DEF RowsOK
  <2>5. history_count' = IF N + 1 < M THEN N + 1 ELSE M
    BY <1>1, <1>6, <2>1, <2>2
  <2>6. ASSUME NEW r \in Row, r < history_count'
        PROVE  history'[r] = Fit(printed'[Len(printed') - history_count' + r + 1])
    <3>1. Len(printed') - history_count' + r + 1 = r + 1
      BY <1>1, <1>3, <2>1, <2>2 DEF Row
    <3>2. CASE r = history_count
      BY <1>3, <2>2, <2>3, <3>1, <3>2
    <3>3. CASE r # history_count
      <4>1. r < history_count /\ r + 1 \in 1 .. N /\ N - history_count + r + 1 = r + 1
        BY <1>1, <2>1, <2>2, <2>6, <3>3 DEF Row
      <4> QED BY <1>3, <1>4, <2>3, <3>1, <3>3, <4>1
    <3> QED BY <3>2, <3>3
  <2>7. HistoryIsTail'
    BY <1>3, <2>5, <2>6, Zenon DEF HistoryIsTail
  <2> QED BY <1>1, <1>3, <1>6, <2>1, <2>4, <2>7
<1>7. CASE history_count = M
  <2>1. history' = [r \in Row |-> IF r = M - 1 THEN Fit(msg) ELSE Fit(history[r + 1])]
        /\ history_count' = history_count
    BY <1>1, <1>7 DEF console_print, ShiftUp
  <2>2. \A r \in Row : r # M - 1 => r + 1 \in Row /\ Fit(history[r + 1]) = history[r + 1]
    <3> TAKE r \in Row
    <3>1. r # M - 1 => r + 1 \in Row
      BY <1>1 DEF Row
    <3> QED BY <3>1, FitIs DEF RowsOK
  <2>3. \A r \in Row : history'[r] = IF r = M - 1 THEN Fit(msg) ELSE history[r + 1]
    BY <2>1, <2>2
  <2>4. RowsOK'
    BY <1>2, <2>1, <2>2, <2>3 DEF RowsOK
  <2>5. N >= M /\ history_count' = IF N + 1 < M THEN N + 1 ELSE M
    BY <1>1, <1>5, <1>7, <2>1
  <2>6. ASSUME NEW r \in Row, r < history_count'
        PROVE  history'[r] = Fit(printed'[Len(printed') - history_count' + r + 1])
    <3>1. r \in Nat /\ r < M
      BY <1>1 DEF Row
    <3>2. CASE r = M - 1
      <4>1. Len(printed') - history_count' + r + 1 = N + 1
        BY <1>1, <1>3, <1>7, <2>1, <3>2
      <4> QED BY <1>3, <2>3, <3>2, <4>1
    <3>3. CASE r # M - 1
      <4>1. r + 1 \in Row /\ r + 1 < history_count
        BY <1>1, <1>7, <3>1, <3>3 DEF Row
      <4>2. N - history_count + (r + 1) + 1 = Len(printed') - history_count' + r + 1
        BY <1>1, <1>3, <1>7, <2>1, <3>1
      <4>3. Len(printed') - history_count' + r + 1 \in 1 .. N
        BY <1>1, <1>3, <1>7, <2>1, <2>5, <3>1, <3>3
      <4> QED BY <1>3, <1>4, <2>3, <3>3, <4>1, <4>2, <4>3
    <3> QED BY <3>2, <3>3
  <2>7. HistoryIsTail'
    BY <1>3, <2>5, <2>6, Zenon DEF HistoryIsTail
  <2> QED BY <1>1, <1>3, <2>1, <2>4, <2>7
<1> QED BY <1>1, <1>6, <1>7

(* Two characters are a text.                                              *)
LEMMA PairIn ==
  ASSUME NEW S, NEW a \in S, NEW b \in S
  PROVE  <<a, b>> \in Seq(S)
OBVIOUS

(* A line is printed behind "> " (console.c:69-76).                        *)
LEMMA LogEntryIs ==
  ASSUME NEW s \in Seq(Glyph)
  PROVE  LogEntry(s) \in Seq(Glyph)
<1> DEFINE n == IF Len(s) < CONSOLE_LINE_LEN - 3 THEN Len(s) ELSE CONSOLE_LINE_LEN - 3
           mark == <<">", " ">>
<1>1. n \in 0 .. Len(s)
  BY ConsoleAssumption
<1>2. LogEntry(s) = mark \o SubSeq(s, 1, n)
  BY DEF LogEntry
<1> HIDE DEF n
<1>3. SubSeq(s, 1, n) \in Seq(Glyph)
  BY <1>1
<1>4. ">" \in Glyph /\ " " \in Glyph
  BY DEF Glyph
<1>5. mark \in Seq(Glyph)
  BY <1>4, PairIn, Zenon
<1> HIDE DEF mark
<1> QED BY <1>2, <1>3, <1>5

(* The fixed texts are texts.                                              *)
LEMMA FixedTexts ==
  /\ Banner \in Seq(Seq(Glyph)) /\ Len(Banner) = 2
  /\ Banner[1] \in Seq(Glyph) /\ Banner[2] \in Seq(Glyph)
  /\ \A m \in Messages : Message[m] \in Seq(Glyph)
<1>1. ASSUME NEW S, NEW a \in S
      PROVE  <<a>> \in Seq(S)
  OBVIOUS
<1>2. /\ "Online." \in Glyph /\ "Type commands." \in Glyph /\ "Variable assigned." \in Glyph
      /\ "Command executed." \in Glyph /\ "Error: unknown function." \in Glyph
  BY DEF Glyph
<1>3. /\ <<"Online.">> \in Seq(Glyph) /\ <<"Type commands.">> \in Seq(Glyph)
      /\ <<"Variable assigned.">> \in Seq(Glyph)
      /\ <<"Command executed.">> \in Seq(Glyph) /\ <<"Error: unknown function.">> \in Seq(Glyph)
  BY <1>1, <1>2, Zenon
<1>4. Banner \in Seq(Seq(Glyph))
  BY <1>3, PairIn, Zenon DEF Banner
<1>5. Len(Banner) = 2 /\ Banner[1] = <<"Online.">> /\ Banner[2] = <<"Type commands.">>
  BY DEF Banner
<1>6. /\ Message["assigned"] = <<"Variable assigned.">> /\ Message["executed"] = <<"Command executed.">>
      /\ Message["unknown"] = <<"Error: unknown function.">>
  BY DEF Message
<1> QED BY <1>3, <1>4, <1>5, <1>6, Zenon DEF Messages

-----------------------------------------------------------------------------
(* The invariant.                                                          *)

ReplInv == ConsoleInv /\ LineAsTyped /\ HistoryIsTail

(* The console and the interpreter as they are set up (console.c:13-23).   *)
LEMMA InitRepl == Init => ReplInv
<1> SUFFICES ASSUME Init PROVE ReplInv
  OBVIOUS
<1>1. EvalTypeOK
  BY InitType DEF Init
<1>2. /\ visible = TRUE /\ history_count = 2
      /\ prompt_buf = [c \in Cell |-> NUL] /\ prompt_len = 0 /\ printed = Banner /\ line = << >>
      /\ history = [r \in Row |-> CASE r = 0 -> Fit(Banner[1]) [] r = 1 -> Fit(Banner[2]) [] OTHER -> << >>]
  BY DEF Init, console_init
<1>3. 0 \in Cell /\ 0 \in Row /\ 1 \in Row /\ CONSOLE_MAX_HISTORY \in Nat /\ CONSOLE_MAX_HISTORY >= 2
      /\ CONSOLE_LINE_LEN \in Nat /\ CONSOLE_LINE_LEN > 3
  BY ConsoleAssumption DEF Cell, Row
<1>4. \A r \in Row : history[r] = IF r = 0 THEN Fit(Banner[1]) ELSE IF r = 1 THEN Fit(Banner[2]) ELSE << >>
  BY <1>2
<1>5. /\ Fit(Banner[1]) \in Seq(Glyph) /\ Len(Fit(Banner[1])) < CONSOLE_LINE_LEN
      /\ Fit(Banner[2]) \in Seq(Glyph) /\ Len(Fit(Banner[2])) < CONSOLE_LINE_LEN
      /\ << >> \in Seq(Glyph) /\ Len(<< >>) < CONSOLE_LINE_LEN
  <2>1. << >> \in Seq(Glyph) /\ Len(<< >>) < CONSOLE_LINE_LEN
    BY <1>3
  <2> QED BY <2>1, FixedTexts, FitIs
<1>6. \A r \in Row : history[r] \in Seq(Glyph) /\ Len(history[r]) < CONSOLE_LINE_LEN
  BY <1>4, <1>5, Zenon
<1>7. DOMAIN history = Row /\ history \in [Row -> Seq(Glyph)]
  BY <1>2, <1>6, Zenon
<1>8. ConsoleTypeOK
  BY <1>2, <1>3, <1>6, <1>7 DEF ConsoleTypeOK
<1>9. PromptIsString
  BY <1>2, <1>3 DEF PromptIsString, Cell
<1>10. TextTypeOK
  BY <1>2, <1>7, FixedTexts DEF TextTypeOK
<1>11. LineAsTyped
  <2>1. CString(prompt_buf) \in Seq(Printable) /\ Len(CString(prompt_buf)) = 0
    BY <1>2, <1>8, <1>9, CStringIs DEF ConsoleTypeOK, PromptIsString
  <2> QED BY <1>2, <2>1 DEF LineAsTyped
<1>12. HistoryIsTail
  <2>1. Len(printed) = 2 /\ printed[1] = Banner[1] /\ printed[2] = Banner[2]
    BY <1>2, FixedTexts
  <2>2. \A r \in Row : r < 2 => (r = 0 \/ r = 1)
    BY <1>3 DEF Row
  <2>3. \A r \in Row : r < 2 => history[r] = Fit(printed[2 - 2 + r + 1])
    <3> TAKE r \in Row
    <3>1. CASE r = 0
      BY <1>3, <1>4, <2>1, <3>1
    <3>2. CASE r = 1
      BY <1>3, <1>4, <2>1, <3>2
    <3> QED BY <2>2, <3>1, <3>2
  <2> QED BY <1>2, <1>3, <2>1, <2>3 DEF HistoryIsTail
<1> QED BY <1>1, <1>8, <1>9, <1>10, <1>11, <1>12 DEF ReplInv, ConsoleInv

(* What can be wrong with a step: nothing when the console keeps still.    *)
LEMMA ConsoleKeeps ==
  ASSUME ReplInv, UNCHANGED <<consoleVars, line, printed>>, EvalTypeOK'
  PROVE  ReplInv'
<1>1. UNCHANGED <<visible, history, history_count, prompt_buf, prompt_len, line, printed>>
  BY DEF consoleVars, historyVars, lineVars
<1> QED BY <1>1 DEF ReplInv, ConsoleInv, ConsoleTypeOK, TextTypeOK, PromptIsString, LineAsTyped, HistoryIsTail,
               CString

(* Printing a message changes rows only.                                   *)
LEMMA PrintKeeps ==
  ASSUME ReplInv, EvalTypeOK', NEW msg \in Seq(Glyph), console_print(msg),
         printed' = Append(printed, msg), UNCHANGED <<visible, lineVars, line>>
  PROVE  ReplInv'
<1>1. RowsOK /\ history_count \in 0 .. CONSOLE_MAX_HISTORY /\ printed \in Seq(Seq(Glyph))
  BY DEF ReplInv, ConsoleInv, ConsoleTypeOK, TextTypeOK, RowsOK
<1>2. /\ RowsOK' /\ history_count' \in 0 .. CONSOLE_MAX_HISTORY
      /\ printed' \in Seq(Seq(Glyph)) /\ HistoryIsTail'
  BY <1>1, PrintKeepsTail DEF ReplInv
<1>3. UNCHANGED <<visible, prompt_buf, prompt_len, line>>
  BY DEF lineVars
<1>4. TextTypeOK' /\ ConsoleTypeOK'
  BY <1>2, <1>3 DEF RowsOK, TextTypeOK, ConsoleTypeOK, ReplInv, ConsoleInv
<1>5. PromptIsString' /\ LineAsTyped'
  BY <1>3 DEF ReplInv, ConsoleInv, PromptIsString, LineAsTyped, CString
<1> QED BY <1>2, <1>4, <1>5 DEF ReplInv, ConsoleInv

(* An edit of the line changes the buffer only: it stays a string, of the  *)
(* characters of the line.                                                 *)
LEMMA EditKeeps ==
  ASSUME ReplInv, EvalTypeOK', UNCHANGED <<visible, historyVars, printed>>,
         prompt_buf' \in [Cell -> Printable \cup {NUL}], prompt_len' \in Cell, PromptIsString',
         line' = [i \in 1 .. prompt_len' |-> prompt_buf'[i - 1]]
  PROVE  ReplInv'
<1>2. UNCHANGED <<visible, history, history_count, printed>>
  BY DEF historyVars
<1>3. ConsoleTypeOK' /\ TextTypeOK' /\ HistoryIsTail'
  BY <1>2 DEF ReplInv, ConsoleInv, ConsoleTypeOK, TextTypeOK, HistoryIsTail
<1>4. ConsoleTypeOK' /\ PromptIsString' => CString(prompt_buf)' = [i \in 1 .. prompt_len' |-> prompt_buf'[i - 1]]
  BY CStringIs DEF ConsoleTypeOK, PromptIsString
<1> QED BY <1>3, <1>4 DEF ReplInv, ConsoleInv, LineAsTyped

(* The line as the buffer holds it.                                        *)
LEMMA LineIs ==
  ASSUME ReplInv
  PROVE  /\ line = CString(prompt_buf) /\ line = [i \in 1 .. prompt_len |-> prompt_buf[i - 1]]
         /\ line \in Seq(Printable) /\ Len(line) = prompt_len
         /\ prompt_len \in 0 .. CONSOLE_PROMPT_MAX - 1
         /\ prompt_buf \in [Cell -> Printable \cup {NUL}]
BY CStringIs DEF ReplInv, ConsoleInv, ConsoleTypeOK, PromptIsString, LineAsTyped, Cell

(* Backspace (console.c:62-66).                                            *)
LEMMA EraseKeeps ==
  ASSUME ReplInv, NEW c, EraseKey(c)
  PROVE  ReplInv'
<1>1. /\ prompt_len > 0 /\ prompt_len' = prompt_len - 1
      /\ prompt_buf' = [prompt_buf EXCEPT ![prompt_len - 1] = NUL]
      /\ line' = SubSeq(line, 1, Len(line) - 1)
      /\ UNCHANGED <<scVars, visible, historyVars, printed>>
  BY DEF EraseKey, Erase
<1>2. /\ line = [i \in 1 .. prompt_len |-> prompt_buf[i - 1]] /\ Len(line) = prompt_len
      /\ line \in Seq(Printable) /\ prompt_len \in 0 .. CONSOLE_PROMPT_MAX - 1
      /\ prompt_buf \in [Cell -> Printable \cup {NUL}] /\ CONSOLE_PROMPT_MAX \in Nat
  BY LineIs, ConsoleAssumption
<1>3. prompt_len' \in Cell /\ prompt_len - 1 \in Cell /\ prompt_buf' \in [Cell -> Printable \cup {NUL}]
  BY <1>1, <1>2 DEF Cell
<1>4. PromptIsString'
  <2>1. \A d \in Cell : d < prompt_len - 1 => prompt_buf'[d] = prompt_buf[d] /\ d < prompt_len
    BY <1>1, <1>2 DEF Cell
  <2>2. prompt_buf'[prompt_len'] = NUL
    BY <1>1, <1>2, <1>3
  <2> QED BY <1>1, <2>1, <2>2 DEF ReplInv, ConsoleInv, PromptIsString
<1>5. line' = [i \in 1 .. prompt_len' |-> prompt_buf'[i - 1]]
  <2>1. line' = [i \in 1 .. prompt_len - 1 |-> line[i]]
    BY <1>1, <1>2
  <2>2. \A i \in 1 .. prompt_len - 1 : line[i] = prompt_buf'[i - 1]
    <3> TAKE i \in 1 .. prompt_len - 1
    <3>1. i \in 1 .. prompt_len /\ i - 1 \in Cell /\ i - 1 # prompt_len - 1
      BY <1>2 DEF Cell
    <3> QED BY <1>1, <1>2, <3>1
  <2> QED BY <1>1, <2>1, <2>2
<1>6. EvalTypeOK'
  BY <1>1, StutterType DEF ReplInv, ConsoleInv
<1> QED BY <1>1, <1>3, <1>4, <1>5, <1>6, EditKeeps

(* A character that fits (console.c:86-91).                                *)
LEMMA InsertKeeps ==
  ASSUME ReplInv, NEW c, InsertKey(c)
  PROVE  ReplInv'
<1>1. /\ prompt_len + 1 < CONSOLE_PROMPT_MAX /\ prompt_len' = prompt_len + 1
      /\ prompt_buf' = [prompt_buf EXCEPT ![prompt_len] = c, ![prompt_len + 1] = NUL]
      /\ line' = Append(line, c) /\ c \in Printable
      /\ UNCHANGED <<scVars, visible, historyVars, printed>>
  BY DEF InsertKey, Insert, HasCell
<1>2. /\ line = [i \in 1 .. prompt_len |-> prompt_buf[i - 1]] /\ Len(line) = prompt_len
      /\ line \in Seq(Printable) /\ prompt_len \in 0 .. CONSOLE_PROMPT_MAX - 1
      /\ prompt_buf \in [Cell -> Printable \cup {NUL}] /\ CONSOLE_PROMPT_MAX \in Nat
  BY LineIs, ConsoleAssumption
<1>3. /\ prompt_len' \in Cell /\ prompt_len \in Cell /\ prompt_buf' \in [Cell -> Printable \cup {NUL}]
      /\ prompt_buf'[prompt_len] = c /\ prompt_buf'[prompt_len + 1] = NUL
      /\ \A d \in Cell : d < prompt_len => prompt_buf'[d] = prompt_buf[d]
  BY <1>1, <1>2 DEF Cell
<1>4. PromptIsString'
  <2>1. NUL \notin Printable
    BY ConsoleAssumption
  <2>2. \A d \in Cell : d < prompt_len + 1 => d < prompt_len \/ d = prompt_len
    BY <1>2 DEF Cell
  <2> QED BY <1>1, <1>3, <2>1, <2>2 DEF ReplInv, ConsoleInv, PromptIsString
<1>5. line' = [i \in 1 .. prompt_len' |-> prompt_buf'[i - 1]]
  <2>1. line' = [i \in 1 .. prompt_len + 1 |-> IF i = prompt_len + 1 THEN c ELSE line[i]]
    BY <1>1, <1>2
  <2>2. \A i \in 1 .. prompt_len + 1 : (IF i = prompt_len + 1 THEN c ELSE line[i]) = prompt_buf'[i - 1]
    <3> TAKE i \in 1 .. prompt_len + 1
    <3>1. CASE i = prompt_len + 1
      BY <1>2, <1>3, <3>1
    <3>2. CASE i # prompt_len + 1
      <4>1. i \in 1 .. prompt_len /\ i - 1 \in Cell /\ i - 1 < prompt_len
        BY <1>2, <3>2 DEF Cell
      <4> QED BY <1>2, <1>3, <3>2, <4>1
    <3> QED BY <3>1, <3>2
  <2> QED BY <1>1, <2>1, <2>2
<1>6. EvalTypeOK'
  BY <1>1, StutterType DEF ReplInv, ConsoleInv
<1> QED BY <1>1, <1>3, <1>4, <1>5, <1>6, EditKeeps

(* Enter: the line is printed as it was typed and handed over whole        *)
(* (console.c:67-81).                                                      *)
LEMMA EnterKeeps ==
  ASSUME ReplInv, NEW c, EnterKey(c)
  PROVE  ReplInv' /\ CString(prompt_buf) \in Script
<1>1. /\ console_print(LogEntry(CString(prompt_buf))) /\ printed' = Append(printed, LogEntry(line))
      /\ Eval(CString(prompt_buf)) /\ UNCHANGED <<visible, lineVars, line>>
  BY DEF EnterKey, EnterLine
<1>2. /\ line = CString(prompt_buf) /\ line \in Seq(Printable) /\ Len(line) = prompt_len
      /\ prompt_len \in 0 .. CONSOLE_PROMPT_MAX - 1
  BY LineIs
<1>3. line \in Script
  <2>1. Len(line) < CONSOLE_PROMPT_MAX
    BY <1>2, ConsoleAssumption
  <2> QED BY <1>2, <2>1, LineIsScript
<1>4. EvalTypeOK'
  BY <1>1, <1>2, <1>3, EvalType DEF ReplInv, ConsoleInv
<1>5. LogEntry(line) \in Seq(Glyph)
  <2>1. Printable \subseteq Glyph
    BY Zenon DEF Glyph
  <2>2. \A i \in 1 .. Len(line) : line[i] \in Glyph
    BY <1>2, <2>1
  <2> QED BY <1>2, <2>2, SeqOver, LogEntryIs
<1>6. ReplInv'
  BY <1>1, <1>2, <1>4, <1>5, PrintKeeps
<1> QED BY <1>2, <1>3, <1>6

(* A key that brings the console up or down, or changes nothing.           *)
LEMMA OtherKeysKeep ==
  ASSUME ReplInv, NEW c, ToggleKey(c) \/ IgnoredKey(c)
  PROVE  ReplInv'
<1>1. UNCHANGED scVars
  BY DEF ToggleKey, IgnoredKey
<1>2. EvalTypeOK'
  BY <1>1, StutterType DEF ReplInv, ConsoleInv
<1>3. CASE IgnoredKey(c)
  BY <1>2, <1>3, ConsoleKeeps DEF IgnoredKey
<1>4. CASE ToggleKey(c)
  <2>1. visible' = ~visible /\ UNCHANGED <<history, history_count, prompt_buf, prompt_len, line, printed>>
    BY <1>4 DEF ToggleKey, console_toggle, historyVars, lineVars
  <2>2. visible' \in BOOLEAN
    BY <2>1
  <2> QED BY <1>2, <2>1, <2>2 DEF ReplInv, ConsoleInv, ConsoleTypeOK, TextTypeOK, PromptIsString, LineAsTyped,
                                  HistoryIsTail, CString
<1> QED BY <1>3, <1>4

(* A turn of the interpreter that says something: it is the message the    *)
(* last line of the console then holds (serpentc.c:48, 77, 79).            *)
LEMMA SpeakKeeps ==
  ASSUME ReplInv, Speak
  PROVE  ReplInv'
<1>1. EvalTypeOK'
  BY EvalStepType DEF Speak, ReplInv, ConsoleInv
<1>2. \E m \in Messages : out' = Append(out, m)
  <2>1. out' # out /\ EvalStep
    BY DEF Speak
  <2>2. CASE Assignment
    BY <2>2 DEF Assignment, Messages
  <2>3. CASE Dispatch
    BY <2>3 DEF Dispatch, Messages
  <2> QED BY <2>1, <2>2, <2>3 DEF EvalStep, Call, Argument, Skip, Return
<1>3. PICK m \in Messages : out' = Append(out, m)
  BY <1>2
<1>4. out'[Len(out')] = m
  BY <1>3 DEF ReplInv, ConsoleInv, EvalTypeOK
<1>5. Message[m] \in Seq(Glyph)
  BY FixedTexts
<1>6. /\ console_print(Message[m]) /\ printed' = Append(printed, Message[m])
      /\ UNCHANGED <<visible, lineVars, line>>
  BY <1>4 DEF Speak
<1> QED BY <1>1, <1>5, <1>6, PrintKeeps

(* A turn that says nothing, and the return, which clears the line         *)
(* (console.c:83-84).                                                      *)
LEMMA ReturnKeeps ==
  ASSUME ReplInv, Quiet \/ Returned
  PROVE  ReplInv'
<1>1. EvalTypeOK'
  BY EvalStepType DEF Quiet, Returned, EvalStep, ReplInv, ConsoleInv
<1>2. CASE Quiet
  BY <1>1, <1>2, ConsoleKeeps DEF Quiet
<1>3. CASE Returned
  <2>1. /\ prompt_len' = 0 /\ prompt_buf' = [prompt_buf EXCEPT ![0] = NUL] /\ line' = << >>
        /\ UNCHANGED <<visible, historyVars, printed>>
    BY <1>3 DEF Returned, ClearLine
  <2>2. 0 \in Cell /\ prompt_buf \in [Cell -> Printable \cup {NUL}]
    BY ConsoleAssumption, LineIs DEF Cell
  <2>3. prompt_buf' \in [Cell -> Printable \cup {NUL}] /\ prompt_buf'[0] = NUL /\ prompt_len' \in Cell
    BY <2>1, <2>2
  <2>4. PromptIsString'
    <3>1. \A d \in Cell : ~(d < 0)
      BY DEF Cell
    <3> QED BY <2>1, <2>3, <3>1 DEF PromptIsString
  <2>5. line' = [i \in 1 .. prompt_len' |-> prompt_buf'[i - 1]]
    BY <2>1
  <2> QED BY <1>1, <2>1, <2>3, <2>4, <2>5, EditKeeps
<1> QED BY <1>2, <1>3

-----------------------------------------------------------------------------
(* Every step of the main loop, the console and the interpreter.           *)
LEMMA NextKeeps == ReplInv /\ [Next]_vars => ReplInv'
<1> SUFFICES ASSUME ReplInv, [Next]_vars PROVE ReplInv'
  OBVIOUS
<1>1. CASE Boot
  <2>1. Eval(BootScript) /\ UNCHANGED <<consoleVars, line, printed>>
    BY <1>1 DEF Boot
  <2>2. EvalTypeOK'
    BY <2>1, EvalType, ReplAssumption DEF ReplInv, ConsoleInv
  <2> QED BY <2>1, <2>2, ConsoleKeeps
<1>2. ASSUME NEW c \in Keys, Key(c)
      PROVE  ReplInv'
  BY <1>2, EraseKeeps, InsertKeeps, EnterKeeps, OtherKeysKeep DEF Key
<1>3. CASE Evaluate
  BY <1>3, SpeakKeeps, ReturnKeeps DEF Evaluate
<1>4. CASE UNCHANGED vars
  <2>1. UNCHANGED <<scVars, consoleVars, line, printed>>
    BY <1>4 DEF vars
  <2> QED BY <2>1, StutterType, ConsoleKeeps DEF ReplInv, ConsoleInv
<1> QED BY <1>1, <1>2, <1>3, <1>4 DEF Next, Wait

LEMMA ReplInvAlways == Spec => []ReplInv
BY InitRepl, NextKeeps, PTL DEF Spec

(* Over any sequence of keys and lines the buffer is a C string of         *)
(* prompt_len characters within its bounds, no more arguments are kept     *)
(* than there is room for, and every value is a word (console.c:61-92,     *)
(* serpentc.c:30-93).                                                      *)
THEOREM ConsoleInvAlways == Spec => []ConsoleInv
BY ReplInvAlways, PTL DEF ReplInv

(* What is evaluated is the line as it was typed and erased, whatever was  *)
(* in the buffer before (console.c:61-92).                                 *)
THEOREM LineAsTypedAlways == Spec => []LineAsTyped
BY ReplInvAlways, PTL DEF ReplInv

(* The rows are the last lines printed, oldest first, cut to their width,  *)
(* however often they have moved up (console.c:33-59).                     *)
THEOREM HistoryIsTailAlways == Spec => []HistoryIsTail
BY ReplInvAlways, PTL DEF ReplInv

(* The console drives the interpreter as it is meant to be driven: one     *)
(* script at a time, each of them text whose identifiers are names.  So    *)
(* what is proved of the interpreter for any texts holds behind the        *)
(* keyboard (kernel.c:108-115, console.c:81).                              *)
THEOREM ReplRunsSerpentC == Spec => SerpentCSpec
<1>1. Init => serpentc_init
  BY DEF Init
<1>2. ReplInv /\ [Next]_vars => [(\E text \in Script : Eval(text)) \/ EvalStep]_scVars
  <2> SUFFICES ASSUME ReplInv, [Next]_vars
               PROVE  (\E text \in Script : Eval(text)) \/ EvalStep \/ UNCHANGED scVars
    OBVIOUS
  <2>1. CASE Boot
    BY <2>1, ReplAssumption DEF Boot
  <2>2. ASSUME NEW c \in Keys, EnterKey(c)
        PROVE  \E text \in Script : Eval(text)
    BY <2>2, EnterKeeps DEF EnterKey
  <2>3. ASSUME NEW c \in Keys, ToggleKey(c) \/ EraseKey(c) \/ InsertKey(c) \/ IgnoredKey(c)
        PROVE  UNCHANGED scVars
    BY <2>3 DEF ToggleKey, EraseKey, InsertKey, IgnoredKey
  <2>4. CASE Evaluate
    BY <2>4 DEF Evaluate, Speak, Quiet, Returned, EvalStep
  <2>5. CASE UNCHANGED vars
    BY <2>5 DEF vars
  <2> QED BY <2>1, <2>2, <2>3, <2>4, <2>5 DEF Next, Key, Wait
<1> QED BY <1>1, <1>2, ReplInvAlways, PTL DEF Spec, SerpentCSpec

(* Whatever is typed, every evaluation ends: the main loop, which waits    *)
(* for it, is not stopped by a script (serpentc.c:38-92).                  *)
THEOREM ReplEvaluationsEnd == Spec => EvalAdvances
BY ReplRunsSerpentC, EvalAdvancesAlways, PTL

=============================================================================
