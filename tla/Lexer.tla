------------------------------- MODULE Lexer -------------------------------
(***************************************************************************)
(* The tokenizer of SerpentC, kernel/serpentc/lexer.c.  A script is the    *)
(* sequence of its characters; positions count from 1, one past the last   *)
(* character stands for the final NUL.                                     *)
(***************************************************************************)
EXTENDS Integers, Sequences

CONSTANT WORD    \* a uint32_t holds 0 .. WORD - 1 (2^32)

ASSUME WordAssumption == WORD \in Nat \ {0}

Digit  == {"0", "1", "2", "3", "4", "5", "6", "7", "8", "9"}
HexLow == {"a", "b", "c", "d", "e", "f"}
HexUp  == {"A", "B", "C", "D", "E", "F"}
Alpha  == {"_"} \cup HexLow \cup HexUp
          \cup {"g", "h", "i", "j", "k", "l", "m", "n", "o", "p", "q", "r", "s", "t",
                "u", "v", "w", "x", "y", "z"}
          \cup {"G", "H", "I", "J", "K", "L", "M", "N", "O", "P", "Q", "R", "S", "T",
                "U", "V", "W", "X", "Y", "Z"}
Alnum  == Alpha \cup Digit
Hex    == Digit \cup HexLow \cup HexUp
Blank  == {" ", "\t", "\r", "\n"}

Punctuation == [c \in {"(", ")", ",", "=", ";"} |->
                  CASE c = "(" -> "LPAREN" [] c = ")" -> "RPAREN" [] c = "," -> "COMMA"
                    [] c = "=" -> "ASSIGN" [] OTHER -> "SEMICOLON"]

TokenType == {"EOF", "IDENTIFIER", "NUMBER", "ERROR", "LPAREN", "RPAREN", "COMMA", "ASSIGN", "SEMICOLON"}

(* What a digit of base 10 or 16 counts.                                   *)
DigitValue ==
  [c \in Hex |-> CHOOSE v \in 0 .. 15 :
     \/ c = <<"0", "1", "2", "3", "4", "5", "6", "7", "8", "9", "a", "b", "c", "d", "e", "f">>[v + 1]
     \/ v > 9 /\ c = <<"A", "B", "C", "D", "E", "F">>[v - 9]]

(* The first position from p on whose character is not in S.               *)
End(src, p, S) ==
  CHOOSE q \in p .. Len(src) + 1 :
    /\ q = Len(src) + 1 \/ src[q] \notin S
    /\ \A r \in p .. q - 1 : src[r] \in S

(* The digits of a number, wrapped to 32 bits.                             *)
Number(digits, base) ==
  LET value[n \in 0 .. Len(digits)] ==
        IF n = 0 THEN 0 ELSE (value[n - 1] * base + DigitValue[digits[n]]) % WORD
  IN value[Len(digits)]

(* A token: its type, its characters, its value if it is a number, and the *)
(* position behind it.                                                     *)
Tok(type, src, from, to, value) ==
  [type |-> type, text |-> SubSeq(src, from, to - 1), value |-> value, next |-> to]

HexPrefix(src, p) == src[p] = "0" /\ p < Len(src) /\ src[p + 1] \in {"x", "X"}

(* lexer_next, from position p.                                            *)
lexer_next(src, p) ==
  LET b == End(src, p, Blank) IN
  IF b > Len(src) THEN Tok("EOF", src, b, b, 0)
  ELSE CASE src[b] \in Alpha ->
              Tok("IDENTIFIER", src, b, End(src, b, Alnum), 0)
         [] src[b] \in Digit /\ HexPrefix(src, b) ->
              LET e == End(src, b + 2, Hex)
              IN Tok("NUMBER", src, b, e, Number(SubSeq(src, b + 2, e - 1), 16))
         [] src[b] \in Digit /\ ~HexPrefix(src, b) ->
              LET e == End(src, b, Digit)
              IN Tok("NUMBER", src, b, e, Number(SubSeq(src, b, e - 1), 10))
         [] src[b] \in DOMAIN Punctuation ->
              Tok(Punctuation[src[b]], src, b, b + 1, 0)
         [] OTHER ->
              Tok("ERROR", src, b, b + 1, 0)
=============================================================================
