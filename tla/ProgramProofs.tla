--------------------------- MODULE ProgramProofs ---------------------------
(***************************************************************************)
(* A program of the grammar does what it says, for every program, spacing, *)
(* set of names and built-ins and size of the symbol table.                *)
(*                                                                         *)
(* The argument: the text of a program is its pieces one behind the other, *)
(* and a word that stands in a text (Stands) is read as its token when a   *)
(* character follows that cannot go on with it; so what the interpreter    *)
(* reads at the place of a statement are the tokens of that statement, and *)
(* one turn of its loops does to table, drawings and messages what the     *)
(* statement, or the next argument, means.  The invariant (ProgInv) says   *)
(* where in the program the interpreter is.                                *)
(***************************************************************************)
EXTENDS SerpentCSystem, SerpentCProofs

(* The texts programs are made of.                                         *)
Character == Alnum \cup Blank \cup DOMAIN Punctuation
Text == Seq(Character)

(* Texts may be put one behind the other.                                  *)
LEMMA Joined == \A u, v \in Text : u \o v \in Text /\ Len(u \o v) = Len(u) + Len(v) /\ Len(u) \in Nat
BY DEF Text

(* A text that is written piece by piece: each piece behind the ones       *)
(* before.                                                                 *)
Written(f, a, piece, N) ==
  /\ f \in [0 .. N -> Text]
  /\ f[0] = a
  /\ \A n \in 1 .. N : f[n] = f[n - 1] \o piece[n]

(* Such a sequence of texts exists, and a function given by that recursion *)
(* is one.                                                                 *)
LEMMA WrittenExists ==
  ASSUME NEW a \in Text, NEW N \in Nat, NEW piece \in [1 .. N -> Text]
  PROVE  \E f : /\ f = [n \in 0 .. N |-> IF n = 0 THEN a ELSE f[n - 1] \o piece[n]]
<1> DEFINE step == [q \in Text \X (1 .. N) |-> q[1] \o piece[q[2]]]
<1>1. step \in [Text \X (1 .. N) -> Text]
  <2> SUFFICES ASSUME NEW u \in Text, NEW n \in 1 .. N
               PROVE  u \o piece[n] \in Text
    OBVIOUS
  <2>1. piece[n] \in Text
    OBVIOUS
  <2> QED BY <2>1 DEF Text
<1>2. \A u \in Text, n \in 1 .. N : step[<<u, n>>] = u \o piece[n]
  OBVIOUS
<1> HIDE DEF step
<1>3. PICK f \in [0 .. N -> Text] : f[0] = a /\ \A n \in 1 .. N : f[n] = step[<<f[n - 1], n>>]
  <2>1. step \in Steps(Text, N)
    BY <1>1 DEF Steps
  <2>2. Loop(Text, a, N, step)
    BY <2>1, Recursion
  <2> QED BY <2>2, Zenon DEF Loop
<1>4. ASSUME NEW n \in 0 .. N
      PROVE  f[n] = IF n = 0 THEN a ELSE f[n - 1] \o piece[n]
  <2>1. CASE n = 0
    BY <2>1, <1>3
  <2>2. CASE n # 0
    <3>1. n \in 1 .. N /\ n - 1 \in 0 .. N
      BY <2>2
    <3>2. f[n - 1] \in Text
      BY <1>3, <3>1
    <3>3. f[n] = step[<<f[n - 1], n>>]
      BY <1>3, <3>1
    <3> QED BY <1>2, <2>2, <3>1, <3>2, <3>3, Zenon
  <2> QED BY <2>1, <2>2
<1>5. f = [n \in 0 .. N |-> f[n]]
  BY <1>3
<1>6. f = [n \in 0 .. N |-> IF n = 0 THEN a ELSE f[n - 1] \o piece[n]]
  BY <1>4, <1>5, Zenon
<1> QED BY <1>6

-----------------------------------------------------------------------------
(* Where a word stands in a text.                                          *)
Stands(src, p, w) ==
  /\ p \in Nat \ {0}
  /\ p + Len(w) <= Len(src) + 1
  /\ \A i \in 1 .. Len(w) : src[p + i - 1] = w[i]

(* A text stands in itself; of two words one behind the other, each stands *)
(* in its place; what stands in a word stands in what the word stands in.  *)
LEMMA StandsWhole == \A src \in Text : Stands(src, 1, src)
BY DEF Stands, Text

LEMMA StandsParts ==
  ASSUME NEW src \in Text, NEW p, NEW u \in Text, NEW v \in Text, Stands(src, p, u \o v)
  PROVE  Stands(src, p, u) /\ Stands(src, p + Len(u), v)
<1> DEFINE w == u \o v
           k == Len(u)
           l == Len(v)
           L == Len(src)
<1>1. Len(w) = k + l /\ k \in Nat /\ l \in Nat /\ L \in Nat
  BY DEF Text
<1>2. \A i \in 1 .. k : w[i] = u[i]
  BY DEF Text
<1>3. \A i \in 1 .. l : w[k + i] = v[i]
  BY DEF Text
<1>4. p \in Nat \ {0} /\ p + Len(w) <= L + 1 /\ \A i \in 1 .. Len(w) : src[p + i - 1] = w[i]
  BY DEF Stands
<1> HIDE DEF w, k, l, L
<1>5. p + k \in Nat \ {0} /\ p + k <= L + 1 /\ p + k + l <= L + 1
  BY <1>1, <1>4
<1>6. \A i \in 1 .. k : src[p + i - 1] = u[i]
  <2> TAKE i \in 1 .. k
  <2>1. i \in 1 .. Len(w)
    BY <1>1
  <2> QED BY <1>2, <1>4, <2>1
<1>7. \A i \in 1 .. l : src[p + k + i - 1] = v[i]
  <2> TAKE i \in 1 .. l
  <2>1. k + i \in 1 .. Len(w) /\ p + (k + i) - 1 = p + k + i - 1
    BY <1>1, <1>4
  <2>2. src[p + (k + i) - 1] = w[k + i]
    BY <1>4, <2>1
  <2> QED BY <1>3, <2>1, <2>2
<1>8. Stands(src, p, u)
  BY <1>4, <1>5, <1>6 DEF Stands, k, L
<1>9. Stands(src, p + k, v)
  BY <1>5, <1>7 DEF Stands, l, L
<1> QED BY <1>8, <1>9 DEF k

LEMMA StandsIn ==
  ASSUME NEW src \in Text, NEW w \in Text, NEW v \in Text, NEW p, NEW q,
         Stands(src, p, w), Stands(w, q, v)
  PROVE  Stands(src, p + q - 1, v)
<1> DEFINE k == Len(w)
           l == Len(v)
           L == Len(src)
<1>1. k \in Nat /\ l \in Nat /\ L \in Nat
  BY DEF Text
<1>2. p \in Nat \ {0} /\ p + k <= L + 1 /\ \A i \in 1 .. k : src[p + i - 1] = w[i]
  BY DEF Stands
<1>3. q \in Nat \ {0} /\ q + l <= k + 1 /\ \A i \in 1 .. l : w[q + i - 1] = v[i]
  BY DEF Stands
<1> HIDE DEF k, l, L
<1>4. p + q - 1 \in Nat \ {0} /\ p + q - 1 + l <= L + 1
  BY <1>1, <1>2, <1>3
<1>5. \A i \in 1 .. l : src[p + q - 1 + i - 1] = v[i]
  <2> TAKE i \in 1 .. l
  <2>1. q + i - 1 \in 1 .. k /\ p + (q + i - 1) - 1 = p + q - 1 + i - 1
    BY <1>1, <1>2, <1>3
  <2> QED BY <1>2, <1>3, <2>1
<1> QED BY <1>4, <1>5 DEF Stands, l, L

(* The characters of a text from the place of a word on are the word's.    *)
LEMMA StandsPiece ==
  ASSUME NEW src \in Text, NEW w \in Text, NEW p, Stands(src, p, w)
  PROVE  SubSeq(src, p, p + Len(w) - 1) = w
<1> DEFINE l == Len(w)
           L == Len(src)
           s == SubSeq(src, p, p + l - 1)
<1>1. l \in Nat /\ L \in Nat
  BY DEF Text
<1>2. p \in Nat \ {0} /\ p + l <= L + 1 /\ \A i \in 1 .. l : src[p + i - 1] = w[i]
  BY DEF Stands
<1>3. s \in Text /\ Len(s) = l /\ \A i \in 1 .. l : s[i] = src[p + i - 1]
  BY <1>1, <1>2 DEF Text
<1> HIDE DEF s
<1>4. s = w
  BY <1>2, <1>3, SeqEqual DEF Text
<1> QED BY <1>4 DEF s

(* In what is written piece by piece, each piece stands behind the ones    *)
(* before, and what is written first stands at the beginning.              *)
LEMMA PiecesStand ==
  ASSUME NEW a, NEW N \in Nat, NEW piece \in [1 .. N -> Text], NEW f, Written(f, a, piece, N)
  PROVE  \A n \in 1 .. N : Stands(f[N], Len(f[n - 1]) + 1, piece[n])
<1>0. f \in [0 .. N -> Text] /\ \A n \in 1 .. N : f[n] = f[n - 1] \o piece[n]
  BY DEF Written, Text
<1>1. ASSUME NEW n \in 1 .. N
      PROVE  Stands(f[N], Len(f[n - 1]) + 1, piece[n])
  <2> DEFINE q == Len(f[n - 1]) + 1
             T == {m \in 0 .. N : m >= n => Stands(f[m], q, piece[n])}
  <2>1. f[n - 1] \in Text /\ piece[n] \in Text /\ f[n] = f[n - 1] \o piece[n] /\ f[n] \in Text
    BY <1>0
  <2>2. Stands(f[n], q, piece[n])
    <3>1. Stands(f[n], 1, f[n - 1] \o piece[n])
      BY <2>1, StandsWhole
    <3>2. Stands(f[n], 1 + Len(f[n - 1]), piece[n])
      BY <2>1, <3>1, StandsParts
    <3>3. 1 + Len(f[n - 1]) = q
      BY <2>1 DEF Text
    <3> QED BY <3>2, <3>3
  <2> HIDE DEF q
  <2>3. 0 \in T
    OBVIOUS
  <2>4. ASSUME NEW m \in 1 .. N, m - 1 \in T
        PROVE  m \in T
    <3>1. CASE m < n
      BY <3>1
    <3>2. CASE m = n
      BY <2>2, <3>2
    <3>3. CASE m > n
      <4>1. m - 1 >= n /\ m - 1 \in 0 .. N
        BY <3>3
      <4>2. Stands(f[m - 1], q, piece[n])
        BY <2>4, <4>1
      <4>3. f[m - 1] \in Text /\ piece[m] \in Text /\ f[m] = f[m - 1] \o piece[m] /\ f[m] \in Text
        BY <1>0, <4>1
      <4>4. Stands(f[m], 1, f[m - 1] \o piece[m])
        BY <4>3, StandsWhole
      <4>5. Stands(f[m], 1, f[m - 1])
        BY <4>3, <4>4, StandsParts
      <4>6. Stands(f[m], 1 + q - 1, piece[n])
        BY <2>1, <4>2, <4>3, <4>5, StandsIn
      <4>7. q \in Nat
        BY <2>1 DEF q, Text
      <4>8. 1 + q - 1 = q
        BY <4>7
      <4> QED BY <4>6, <4>8
    <3> QED BY <3>1, <3>2, <3>3
  <2> HIDE DEF T
  <2>5. \A m \in 0 .. N : m \in T
    BY <2>3, <2>4, HandedOn
  <2>6. N \in T
    BY <2>5
  <2> QED BY <2>6 DEF T, q
<1> QED BY <1>1

(* The first piece stands at the beginning, whatever is written behind it. *)
LEMMA FirstStands ==
  ASSUME NEW a \in Text, NEW N \in Nat, NEW piece \in [1 .. N -> Text], NEW f, Written(f, a, piece, N)
  PROVE  Stands(f[N], 1, a)
<1>0. f \in [0 .. N -> Text] /\ f[0] = a /\ \A n \in 1 .. N : f[n] = f[n - 1] \o piece[n]
  BY DEF Written
<1> DEFINE T == {m \in 0 .. N : Stands(f[m], 1, a)}
<1>1. 0 \in T
  BY <1>0, StandsWhole
<1>2. ASSUME NEW m \in 1 .. N, m - 1 \in T
      PROVE  m \in T
  <2>1. f[m - 1] \in Text /\ piece[m] \in Text /\ f[m] = f[m - 1] \o piece[m] /\ f[m] \in Text
    BY <1>0
  <2>2. Stands(f[m], 1, f[m - 1] \o piece[m])
    BY <2>1, StandsWhole
  <2>3. Stands(f[m], 1, f[m - 1]) /\ Stands(f[m - 1], 1, a)
    BY <1>2, <2>1, <2>2, StandsParts
  <2>4. Stands(f[m], 1 + 1 - 1, a)
    BY <2>1, <2>3, StandsIn
  <2>5. 1 + 1 - 1 = 1
    OBVIOUS
  <2> QED BY <2>4, <2>5
<1> HIDE DEF T
<1>3. \A m \in 0 .. N : m \in T
  BY <1>1, <1>2, HandedOn
<1>4. N \in T
  BY <1>3
<1> QED BY <1>4 DEF T

-----------------------------------------------------------------------------
(* Tokens of words that stand in a text.                                   *)

(* The end of a scan is where it would stop.                               *)
LEMMA EndUnique ==
  ASSUME NEW src \in Text, NEW p \in 1 .. Len(src) + 1, NEW q \in p .. Len(src) + 1, NEW S,
         q = Len(src) + 1 \/ src[q] \notin S, \A r \in p .. q - 1 : src[r] \in S
  PROVE  End(src, p, S) = q
<1> DEFINE e == End(src, p, S)
           L == Len(src)
<1>1. /\ e \in p .. L + 1
      /\ e = L + 1 \/ src[e] \notin S
      /\ \A r \in p .. e - 1 : src[r] \in S
  BY EndIs DEF Text
<1>2. L \in Nat
  BY DEF Text
<1> HIDE DEF e, L
<1>3. ~(e < q)
  <2> SUFFICES ASSUME e < q PROVE FALSE
    OBVIOUS
  <2>1. e \in p .. q - 1 /\ e # L + 1
    BY <1>1, <1>2 DEF L
  <2> QED BY <1>1, <2>1
<1>4. ~(q < e)
  <2> SUFFICES ASSUME q < e PROVE FALSE
    OBVIOUS
  <2>1. q \in p .. e - 1 /\ q # L + 1
    BY <1>1, <1>2 DEF L
  <2> QED BY <1>1, <2>1 DEF L
<1>5. e \in Int /\ q \in Int
  BY <1>1, <1>2 DEF L
<1>6. e = q
  BY <1>3, <1>4, <1>5
<1> QED BY <1>6 DEF e

(* The token that begins at b, where no blank is.                          *)
TokenAt(src, b) ==
  IF b > Len(src) THEN Tok("EOF", src, b, b, 0)
  ELSE CASE src[b] \in Alpha ->
              Tok("IDENTIFIER", src, b, End(src, b, Alnum), 0)
         [] src[b] \in Digit /\ HexPrefix(src, b) ->
              Tok("NUMBER", src, b, End(src, b + 2, Hex), Number(SubSeq(src, b + 2, End(src, b + 2, Hex) - 1), 16))
         [] src[b] \in Digit /\ ~HexPrefix(src, b) ->
              Tok("NUMBER", src, b, End(src, b, Digit), Number(SubSeq(src, b, End(src, b, Digit) - 1), 10))
         [] src[b] \in DOMAIN Punctuation ->
              Tok(Punctuation[src[b]], src, b, b + 1, 0)
         [] OTHER ->
              Tok("ERROR", src, b, b + 1, 0)

LEMMA TokenBehindBlanks ==
  ASSUME NEW src, NEW p
  PROVE  lexer_next(src, p) = TokenAt(src, End(src, p, Blank))
BY Zenon DEF lexer_next, TokenAt

(* Blanks in front of a token do not matter (lexer.c:32-43).               *)
LEMMA BlanksSkipped ==
  ASSUME NEW src \in Text, NEW p, NEW gap \in Seq(Blank), Stands(src, p, gap)
  PROVE  lexer_next(src, p) = lexer_next(src, p + Len(gap))
<1> DEFINE k == Len(gap)
           L == Len(src)
           e == End(src, p + k, Blank)
<1>1. k \in Nat /\ L \in Nat /\ \A i \in 1 .. k : gap[i] \in Blank
  BY DEF Text
<1>2. p \in Nat \ {0} /\ p + k <= L + 1 /\ \A i \in 1 .. k : src[p + i - 1] = gap[i]
  BY DEF Stands
<1> HIDE DEF k
<1>3. p + k \in 1 .. L + 1 /\ p \in 1 .. L + 1
  BY <1>1, <1>2
<1>4. /\ e \in p + k .. L + 1
      /\ e = L + 1 \/ src[e] \notin Blank
      /\ \A r \in p + k .. e - 1 : src[r] \in Blank
  BY <1>3, EndIs DEF Text
<1> HIDE DEF e
<1>5. e \in p .. L + 1
  BY <1>1, <1>2, <1>4
<1>6. \A r \in p .. e - 1 : src[r] \in Blank
  <2> TAKE r \in p .. e - 1
  <2>1. CASE r < p + k
    <3>1. r - p + 1 \in 1 .. k /\ p + (r - p + 1) - 1 = r
      BY <1>1, <1>2, <1>4, <2>1 DEF L
    <3>2. src[p + (r - p + 1) - 1] = gap[r - p + 1]
      BY <1>2, <3>1
    <3> QED BY <1>1, <3>1, <3>2
  <2>2. CASE ~(r < p + k)
    <3>1. r \in p + k .. e - 1
      BY <1>1, <1>2, <1>4, <2>2 DEF L
    <3> QED BY <1>4, <3>1
  <2> QED BY <2>1, <2>2
<1>7. End(src, p, Blank) = e
  BY <1>3, <1>4, <1>5, <1>6, EndUnique DEF L
<1> QED BY <1>7, TokenBehindBlanks DEF e, k

(* No blank begins a token, and what begins one is no blank.               *)
LEMMA BlankApart ==
  /\ Blank \cap Alnum = {}
  /\ Blank \cap DOMAIN Punctuation = {}
<1>1. Blank \cap Digit = {}
  BY SMTT(30) DEF Blank, Digit
<1>2. " " \notin Alpha /\ "\t" \notin Alpha /\ "\r" \notin Alpha /\ "\n" \notin Alpha
  BY Zenon DEF Alpha, HexLow, HexUp
<1>3. Blank \cap Alnum = {}
  BY <1>1, <1>2 DEF Blank, Alnum
<1>4. DOMAIN Punctuation = {"(", ")", ",", "=", ";"}
  BY DEF Punctuation
<1> QED BY <1>3, <1>4 DEF Blank

(* Where no blank stands, a token begins there.                            *)
LEMMA NoBlank ==
  ASSUME NEW src \in Text, NEW p \in 1 .. Len(src) + 1, p = Len(src) + 1 \/ src[p] \notin Blank
  PROVE  lexer_next(src, p) = TokenAt(src, p)
<1>1. p \in p .. Len(src) + 1 /\ \A r \in p .. p - 1 : src[r] \in Blank
  BY DEF Text
<1>2. End(src, p, Blank) = p
  BY <1>1, EndUnique
<1> QED BY <1>2, TokenBehindBlanks

(* At the end of a text there is nothing more.                             *)
LEMMA AtEnd ==
  ASSUME NEW src \in Text
  PROVE  lexer_next(src, Len(src) + 1).type = "EOF"
<1> DEFINE b == Len(src) + 1
<1>1. b \in 1 .. Len(src) + 1 /\ b > Len(src)
  BY DEF Text
<1>2. lexer_next(src, b) = TokenAt(src, b)
  BY <1>1, NoBlank
<1> HIDE DEF b
<1>3. TokenAt(src, b) = Tok("EOF", src, b, b, 0)
  BY <1>1, Zenon DEF TokenAt
<1> QED BY <1>2, <1>3, TokFields DEF b

(* A name is read as one, to its end (lexer.c:54-66).                      *)
LEMMA NameRead ==
  ASSUME NEW src \in Text, NEW w \in Identifier, NEW p, Stands(src, p, w),
         p + Len(w) = Len(src) + 1 \/ src[p + Len(w)] \notin Alnum
  PROVE  /\ lexer_next(src, p).type = "IDENTIFIER"
         /\ lexer_next(src, p).text = w
         /\ lexer_next(src, p).next = p + Len(w)
<1> DEFINE k == Len(w)
           L == Len(src)
           e == p + k
<1>1. w \in Text /\ w # << >> /\ w[1] \in Alpha /\ \A i \in 1 .. k : w[i] \in Alnum
  <2>1. w \in Seq(STRING) /\ w # << >> /\ w[1] \in Alpha /\ \A i \in 1 .. k : w[i] \in Alnum
    BY SymbolsAssumption DEF Identifier
  <2>2. \A i \in 1 .. Len(w) : w[i] \in Character
    BY <2>1 DEF Character
  <2>3. w \in Text
    BY <2>1, <2>2, SeqOver DEF Text
  <2> QED BY <2>1, <2>3
<1>2. k \in Nat /\ k >= 1 /\ L \in Nat
  BY <1>1 DEF Text
<1>3. p \in Nat \ {0} /\ p + k <= L + 1 /\ \A i \in 1 .. k : src[p + i - 1] = w[i]
  BY DEF Stands
<1>4. e = L + 1 \/ src[e] \notin Alnum
  OBVIOUS
<1>5. SubSeq(src, p, e - 1) = w
  <2>1. SubSeq(src, p, p + Len(w) - 1) = w
    BY <1>1, StandsPiece
  <2>2. e - 1 = p + Len(w) - 1
    BY <1>2, <1>3
  <2> QED BY <2>1, <2>2
<1> HIDE DEF k
<1>6. p \in 1 .. L + 1 /\ p <= L /\ e \in p .. L + 1 /\ p + 1 - 1 = p /\ ~(p > L)
  BY <1>2, <1>3
<1>7. src[p] = w[1]
  BY <1>2, <1>3, <1>6
<1>8. src[p] \in Alpha /\ src[p] \notin Digit /\ src[p] \notin DOMAIN Punctuation /\ src[p] \notin Blank
  BY <1>1, <1>7, Kinds, BlankApart
<1>9. \A r \in p .. e - 1 : src[r] \in Alnum
  <2> TAKE r \in p .. e - 1
  <2>1. r - p + 1 \in 1 .. k /\ p + (r - p + 1) - 1 = r
    BY <1>2, <1>3
  <2>2. src[p + (r - p + 1) - 1] = w[r - p + 1]
    BY <1>3, <2>1
  <2> QED BY <1>1, <2>1, <2>2
<1> HIDE DEF e, L
<1>10. End(src, p, Alnum) = e
  BY <1>4, <1>6, <1>9, EndUnique DEF L
<1>11. lexer_next(src, p) = TokenAt(src, p)
  BY <1>6, <1>8, NoBlank DEF L
<1>12. TokenAt(src, p) = Tok("IDENTIFIER", src, p, e, 0)
  BY <1>6, <1>8, <1>10, Zenon DEF TokenAt, L
<1>13. /\ lexer_next(src, p).type = "IDENTIFIER"
       /\ lexer_next(src, p).text = SubSeq(src, p, e - 1)
       /\ lexer_next(src, p).next = e
  BY <1>11, <1>12, TokFields
<1> QED BY <1>5, <1>13 DEF e, k

(* A punctuation mark is read as what it is (lexer.c:95-115).              *)
LEMMA MarkRead ==
  ASSUME NEW src \in Text, NEW c \in DOMAIN Punctuation, NEW p, Stands(src, p, <<c>>)
  PROVE  /\ lexer_next(src, p).type = Punctuation[c]
         /\ lexer_next(src, p).next = p + 1
<1> DEFINE L == Len(src)
<1>1. L \in Nat
  BY DEF Text
<1>2. Len(<<c>>) = 1 /\ <<c>>[1] = c
  OBVIOUS
<1>3. p \in Nat \ {0} /\ p + 1 <= L + 1 /\ src[p + 1 - 1] = c
  BY <1>2 DEF Stands
<1>4. p \in 1 .. L + 1 /\ p <= L /\ ~(p > L) /\ src[p] = c
  BY <1>1, <1>3
<1>5. c \notin Alpha /\ c \notin Digit /\ c \notin Blank
  BY Kinds, BlankApart DEF Alnum
<1>6. lexer_next(src, p) = TokenAt(src, p)
  BY <1>4, <1>5, NoBlank
<1>7. TokenAt(src, p) = Tok(Punctuation[c], src, p, p + 1, 0)
  BY <1>4, <1>5, Zenon DEF TokenAt
<1> QED BY <1>6, <1>7, TokFields

(* The two ways to wrap a value: at every digit, and at the end.           *)
LEMMA Division ==
  \A x \in Nat : /\ x \div WORD \in Nat /\ x % WORD \in Nat /\ x % WORD < WORD
                 /\ x = WORD * (x \div WORD) + (x % WORD)
BY WordAssumption

LEMMA Remainder ==
  ASSUME NEW x \in Nat, NEW q \in Nat, NEW r \in Nat, r < WORD, x = WORD * q + r
  PROVE  x % WORD = r
<1> DEFINE d == x \div WORD
           m == x % WORD
           a == WORD * q
           b == WORD * d
<1>1. d \in Nat /\ m \in Nat /\ m < WORD /\ x = b + m
  BY Division
<1>2. WORD \in Nat /\ a \in Nat /\ b \in Nat
  BY <1>1, WordAssumption
<1>3. q < d => a + WORD <= b
  <2> HIDE DEF d
  <2>1. q < d => d = q + 1 \/ d - q - 1 > 0
    BY <1>1
  <2>2. ASSUME NEW k \in Nat
        PROVE  WORD * (q + 1 + k) = WORD * q + WORD + WORD * k /\ WORD * k >= 0
    BY <1>2
  <2>3. q < d => d - q - 1 \in Nat /\ q + 1 + (d - q - 1) = d
    BY <1>1
  <2>4. q < d => b = a + WORD + WORD * (d - q - 1) /\ WORD * (d - q - 1) >= 0
    BY <2>2, <2>3
  <2>5. q < d => WORD * (d - q - 1) \in Int
    BY <1>2, <2>3
  <2> QED BY <2>4, <2>5, <1>2
<1>4. d < q => b + WORD <= a
  <2> HIDE DEF d
  <2>2. ASSUME NEW k \in Nat
        PROVE  WORD * (d + 1 + k) = WORD * d + WORD + WORD * k /\ WORD * k >= 0
    BY <1>1, <1>2
  <2>3. d < q => q - d - 1 \in Nat /\ d + 1 + (q - d - 1) = q
    BY <1>1
  <2>4. d < q => a = b + WORD + WORD * (q - d - 1) /\ WORD * (q - d - 1) >= 0
    BY <2>2, <2>3
  <2>5. d < q => WORD * (q - d - 1) \in Int
    BY <1>2, <2>3
  <2> QED BY <2>4, <2>5, <1>2
<1>5. d = q => a = b
  OBVIOUS
<1> HIDE DEF d, m, a, b
<1>6. x = a + r
  BY DEF a
<1>7. ~(q < d) /\ ~(d < q)
  BY <1>1, <1>2, <1>3, <1>4, <1>6
<1>8. a = b
  BY <1>1, <1>5, <1>7
<1> QED BY <1>1, <1>2, <1>6, <1>8 DEF m

LEMMA WrapTwice ==
  ASSUME NEW x \in Nat, NEW base \in Nat, NEW v \in Nat
  PROVE  ((x % WORD) * base + v) % WORD = (x * base + v) % WORD
<1> DEFINE d == x \div WORD
           m == x % WORD
           y == m * base + v
           z == x * base + v
           e == y \div WORD
           r == y % WORD
<1>1. d \in Nat /\ m \in Nat /\ x = WORD * d + m
  BY Division
<1>2. y \in Nat /\ z \in Nat
  BY <1>1
<1>3. e \in Nat /\ r \in Nat /\ r < WORD /\ y = WORD * e + r
  BY <1>2, Division
<1> HIDE DEF d, m, e, r
<1>4. WORD \in Nat
  BY WordAssumption
<1>5. x * base = WORD * (d * base) + m * base
  <2>1. (WORD * d + m) * base = (WORD * d) * base + m * base
    BY <1>1, <1>4
  <2>2. (WORD * d) * base = WORD * (d * base)
    BY <1>1, <1>4
  <2> QED BY <1>1, <2>1, <2>2
<1>6. d * base + e \in Nat /\ WORD * (d * base + e) = WORD * (d * base) + WORD * e
  BY <1>1, <1>3, <1>4
<1>7. z = WORD * (d * base + e) + r
  <2> DEFINE A == WORD * (d * base)
             B == m * base
             C == WORD * e
             D == WORD * (d * base + e)
             X == x * base
  <2>1. A \in Int /\ B \in Int /\ C \in Int /\ D \in Int /\ X \in Int
    BY <1>1, <1>3, <1>4
  <2>2. X = A + B /\ D = A + C /\ B + v = C + r /\ z = X + v
    BY <1>3, <1>5, <1>6
  <2> HIDE DEF A, B, C, D, X, y, z
  <2>3. z = D + r
    BY <2>1, <2>2, <1>3
  <2> QED BY <2>3 DEF D
<1> DEFINE k == d * base + e
<1>8. k \in Nat
  BY <1>6
<1> HIDE DEF z, k
<1>9. z % WORD = r
  BY <1>2, <1>3, <1>7, <1>8, Remainder DEF k
<1> QED BY <1>9, Zenon DEF r, z, m

(* Digits are read as what they say (lexer.c:76-93): wrapping at every     *)
(* digit leaves the same as wrapping the whole.                            *)
LEMMA NumberSays ==
  ASSUME NEW digits \in Seq(Hex), NEW base \in Nat
  PROVE  Number(digits, base) = Says(digits, base)
<1> DEFINE L == Len(digits)
           v == [n \in 1 .. L |-> DigitValue[digits[n]]]
           sum == [q \in Nat \X (1 .. L) |-> q[1] * base + v[q[2]]]
           wrap == [q \in Nat \X (1 .. L) |-> (q[1] * base + v[q[2]]) % WORD]
<1>1. L \in Nat /\ 0 \in Nat
  OBVIOUS
<1>2. \A n \in 1 .. L : v[n] = DigitValue[digits[n]] /\ v[n] \in Nat
  <2> TAKE n \in 1 .. L
  <2>1. v[n] = DigitValue[digits[n]]
    OBVIOUS
  <2>2. digits[n] \in Hex
    OBVIOUS
  <2>3. DigitValue[digits[n]] \in 0 .. 15
    BY <2>2, DigitIs
  <2> HIDE DEF v, L
  <2> QED BY <2>1, <2>3
<1> HIDE DEF v
<1>3. \A x \in Nat, n \in 1 .. L : x * base + v[n] \in Nat /\ (x * base + v[n]) % WORD \in Nat
  <2> TAKE x \in Nat, n \in 1 .. L
  <2> DEFINE y == x * base + v[n]
  <2>1. y \in Nat
    BY <1>2
  <2> HIDE DEF y
  <2>2. y % WORD \in Nat
    BY <2>1, Division
  <2> QED BY <2>1, <2>2 DEF y
<1>4. sum \in Steps(Nat, L) /\ wrap \in Steps(Nat, L)
  <2>1. \A q \in Nat \X (1 .. L) : q[1] * base + v[q[2]] \in Nat /\ (q[1] * base + v[q[2]]) % WORD \in Nat
    BY <1>3
  <2> QED BY <2>1, Zenon DEF Steps
<1>5. \A x \in Nat, n \in 1 .. L : sum[<<x, n>>] = x * base + v[n]
                                  /\ wrap[<<x, n>>] = (x * base + v[n]) % WORD
  OBVIOUS
<1> HIDE DEF sum, wrap
<1>6. Loop(Nat, 0, L, sum) /\ Loop(Nat, 0, L, wrap)
  BY <1>1, <1>4, Recursion
<1> DEFINE Sum(f, n) == IF n = 0 THEN 0 ELSE f[n - 1] * base + DigitValue[digits[n]]
           Wrap(f, n) == IF n = 0 THEN 0 ELSE (f[n - 1] * base + DigitValue[digits[n]]) % WORD
<1>7. \E f : f = [n \in 0 .. L |-> Sum(f, n)]
  <2>1. PICK f \in [0 .. L -> Nat] : f[0] = 0 /\ \A n \in 1 .. L : f[n] = sum[<<f[n - 1], n>>]
    BY <1>6, Zenon DEF Loop
  <2>2. ASSUME NEW n \in 0 .. L
        PROVE  f[n] = Sum(f, n)
    <3>1. CASE n = 0
      BY <3>1, <2>1
    <3>2. CASE n # 0
      <4>1. n \in 1 .. L /\ n - 1 \in 0 .. L
        BY <3>2
      <4>2. f[n - 1] \in Nat /\ f[n] = sum[<<f[n - 1], n>>]
        BY <2>1, <4>1
      <4>3. f[n] = f[n - 1] * base + v[n]
        BY <4>1, <4>2, <1>5, Zenon
      <4> QED BY <3>2, <4>1, <4>3, <1>2, Zenon
    <3> QED BY <3>1, <3>2
  <2>3. f = [n \in 0 .. L |-> f[n]]
    BY <2>1, Zenon
  <2> QED BY <2>2, <2>3, Zenon
<1>8. \E f : f = [n \in 0 .. L |-> Wrap(f, n)]
  <2>1. PICK f \in [0 .. L -> Nat] : f[0] = 0 /\ \A n \in 1 .. L : f[n] = wrap[<<f[n - 1], n>>]
    BY <1>6, Zenon DEF Loop
  <2>2. ASSUME NEW n \in 0 .. L
        PROVE  f[n] = Wrap(f, n)
    <3>1. CASE n = 0
      BY <3>1, <2>1
    <3>2. CASE n # 0
      <4>1. n \in 1 .. L /\ n - 1 \in 0 .. L
        BY <3>2
      <4>2. f[n - 1] \in Nat /\ f[n] = wrap[<<f[n - 1], n>>]
        BY <2>1, <4>1
      <4>3. f[n] = (f[n - 1] * base + v[n]) % WORD
        BY <4>1, <4>2, <1>5, Zenon
      <4> QED BY <3>2, <4>1, <4>3, <1>2, Zenon
    <3> QED BY <3>1, <3>2
  <2>3. f = [n \in 0 .. L |-> f[n]]
    BY <2>1, Zenon
  <2> QED BY <2>2, <2>3, Zenon
<1> DEFINE s == CHOOSE f : f = [n \in 0 .. L |-> Sum(f, n)]
           w == CHOOSE f : f = [n \in 0 .. L |-> Wrap(f, n)]
<1>9. s = [n \in 0 .. L |-> Sum(s, n)] /\ w = [n \in 0 .. L |-> Wrap(w, n)]
  BY <1>7, <1>8, Zenon
<1>10. Says(digits, base) = s[L] % WORD /\ Number(digits, base) = w[L]
  BY Zenon DEF Says, Number
<1> HIDE DEF s, w
<1>11. \A n \in 0 .. L : s[n] = Sum(s, n) /\ w[n] = Wrap(w, n)
  BY <1>9, Zenon
<1> DEFINE T == {n \in 0 .. L : s[n] \in Nat /\ w[n] = s[n] % WORD}
<1>12. 0 \in T
  <2>1. 0 \in 0 .. L /\ s[0] = 0 /\ w[0] = 0
    BY <1>1, <1>11
  <2>2. 0 % WORD = 0
    <3>1. 0 < WORD /\ 0 = WORD * 0 + 0
      BY WordAssumption
    <3> QED BY <3>1, Remainder
  <2> QED BY <2>1, <2>2
<1>13. ASSUME NEW n \in 1 .. L, n - 1 \in T
       PROVE  n \in T
  <2>1. n \in 0 .. L /\ n # 0 /\ n - 1 \in 0 .. L
    OBVIOUS
  <2> DEFINE x == s[n - 1]
  <2>2. x \in Nat /\ w[n - 1] = x % WORD
    BY <1>13
  <2>3. s[n] = x * base + v[n] /\ w[n] = ((x % WORD) * base + v[n]) % WORD
    BY <1>2, <1>11, <2>1, <2>2, Zenon
  <2> HIDE DEF x
  <2>4. s[n] \in Nat
    BY <1>3, <2>2, <2>3
  <2>5. w[n] = (x * base + v[n]) % WORD
    BY <1>2, <2>2, <2>3, WrapTwice
  <2>6. w[n] = s[n] % WORD
    BY <2>3, <2>5, Zenon
  <2> QED BY <2>1, <2>4, <2>6
<1> HIDE DEF T
<1>14. \A n \in 0 .. L : n \in T
  BY <1>1, <1>12, <1>13, HandedOn
<1>15. L \in T
  BY <1>1, <1>14
<1> QED BY <1>10, <1>15 DEF T

(* What a number as it is written looks like.                              *)
LEMMA Numeral ==
  ASSUME NEW e \in Expression, ~IsVar(e)
  PROVE  /\ e.text \in Text
         /\ e.number \in Word
         /\ IsDecimal(e) \/ IsHexadecimal(e)
<1>1. CASE e \in [var : Identifier]
  BY <1>1 DEF IsVar
<1>2. CASE e \in {x \in [text : Seq(Hex \cup {"x", "X"}), number : Word] : IsDecimal(x) \/ IsHexadecimal(x)}
  <2>1. e.text \in Seq(Hex \cup {"x", "X"}) /\ e.number \in Word /\ (IsDecimal(e) \/ IsHexadecimal(e))
    BY <1>2
  <2>2. \A i \in 1 .. Len(e.text) : e.text[i] \in Character
    <3> TAKE i \in 1 .. Len(e.text)
    <3>1. e.text[i] \in Hex \cup {"x", "X"}
      BY <2>1
    <3>2. Hex \subseteq Alnum /\ "x" \in Alnum /\ "X" \in Alnum
      BY DEF Hex, Alnum, Alpha
    <3> QED BY <3>1, <3>2 DEF Character
  <2>3. e.text \in Text
    BY <2>1, <2>2, SeqOver DEF Text
  <2> QED BY <2>1, <2>3
<1> QED BY <1>1, <1>2 DEF Expression

(* What may follow an expression is no character of one.                   *)
Closers == {";", ",", ")"}
LEMMA CloserApart ==
  /\ Closers \subseteq DOMAIN Punctuation
  /\ Closers \cap Alnum = {}
  /\ Closers \cap Hex = {}
  /\ Closers \cap Digit = {}
  /\ {"x", "X"} \cap Hex = {}
  /\ {"x", "X"} \cap Closers = {}
<1>1. DOMAIN Punctuation = {"(", ")", ",", "=", ";"}
  BY DEF Punctuation
<1>2. Closers \subseteq DOMAIN Punctuation
  BY <1>1 DEF Closers
<1>3. Hex \subseteq Alnum
  BY DEF Hex, Alnum, Alpha
<1>4. "x" \notin Hex /\ "X" \notin Hex
  BY SMTT(30) DEF Hex, Digit, HexLow, HexUp
<1>5. "x" \notin Closers /\ "X" \notin Closers
  BY DEF Closers
<1> QED BY <1>2, <1>3, <1>4, <1>5, Kinds

(* The characters behind a word's place are its own.                       *)
LEMMA StandsAt ==
  ASSUME NEW src \in Text, NEW w \in Text, NEW p, Stands(src, p, w)
  PROVE  /\ \A i \in 1 .. Len(w) : src[p + i - 1] = w[i]
         /\ \A r \in p .. p + Len(w) - 1 : r - p + 1 \in 1 .. Len(w) /\ src[r] = w[r - p + 1]
         /\ p \in Nat \ {0} /\ Len(w) \in Nat /\ p + Len(w) \in 1 .. Len(src) + 1 /\ Len(src) \in Nat
<1> DEFINE k == Len(w)
           L == Len(src)
<1>1. p \in Nat \ {0} /\ p + k <= L + 1 /\ k \in Nat /\ L \in Nat /\ \A i \in 1 .. k : src[p + i - 1] = w[i]
  BY DEF Stands, Text
<1> HIDE DEF k, L
<1>2. p + k \in 1 .. L + 1
  BY <1>1
<1>3. ASSUME NEW r \in p .. p + k - 1
      PROVE  r - p + 1 \in 1 .. k /\ src[r] = w[r - p + 1]
  <2>1. r - p + 1 \in 1 .. k /\ p + (r - p + 1) - 1 = r
    BY <1>1
  <2>2. src[p + (r - p + 1) - 1] = w[r - p + 1]
    BY <1>1, <2>1
  <2> QED BY <2>1, <2>2
<1> QED BY <1>1, <1>2, <1>3 DEF k, L

(* A decimal number is read to its end and counts what its digits say      *)
(* (lexer.c:85-93).                                                        *)
LEMMA DecimalRead ==
  ASSUME NEW src \in Text, NEW e, e.text \in Text, IsDecimal(e), NEW p, Stands(src, p, e.text),
         p + Len(e.text) <= Len(src), src[p + Len(e.text)] \in Closers
  PROVE  /\ lexer_next(src, p).type = "NUMBER"
         /\ lexer_next(src, p).value = e.number
         /\ lexer_next(src, p).next = p + Len(e.text)
<1> DEFINE w == e.text
           k == Len(w)
           L == Len(src)
           q == p + k
<1>1. w \in Text /\ w # << >> /\ w \in Seq(Digit) /\ e.number = Says(w, 10)
  BY DEF IsDecimal
<1>2. /\ \A i \in 1 .. k : src[p + i - 1] = w[i]
      /\ \A r \in p .. p + k - 1 : r - p + 1 \in 1 .. k /\ src[r] = w[r - p + 1]
      /\ p \in Nat \ {0} /\ k \in Nat /\ p + k \in 1 .. L + 1 /\ L \in Nat
  BY <1>1, StandsAt
<1>3. k >= 1 /\ \A i \in 1 .. k : w[i] \in Digit
  BY <1>1
<1>4. q <= L /\ src[q] \in Closers
  OBVIOUS
<1>5. SubSeq(src, p, p + Len(w) - 1) = w
  BY <1>1, StandsPiece
<1> HIDE DEF w
<1>6. p + k - 1 = q - 1 /\ q \in Nat /\ p < q /\ p \in 1 .. L + 1 /\ p <= L /\ ~(p > L) /\ q \in p .. L + 1
      /\ p \in p .. p + k - 1
  BY <1>2, <1>3, <1>4
<1>7. \A r \in p .. q - 1 : src[r] \in Digit
  <2> TAKE r \in p .. q - 1
  <2>1. r \in p .. p + k - 1
    BY <1>6
  <2> HIDE DEF k
  <2> QED BY <1>2, <1>3, <2>1
<1>8. SubSeq(src, p, q - 1) = w
  BY <1>5, <1>6
<1> HIDE DEF k, q, L
<1>9. src[p] \in Digit /\ src[p] \notin Alpha /\ src[p] \notin Blank /\ src[p] \notin DOMAIN Punctuation
  <2>1. p \in p .. q - 1
    BY <1>6, <1>2
  <2>2. src[p] \in Digit
    BY <1>7, <2>1
  <2> QED BY <2>2, Kinds, BlankApart DEF Alnum
<1>10. ~HexPrefix(src, p)
  <2>1. CASE p + 1 < q
    <3>1. p + 1 \in p .. q - 1
      BY <1>2, <1>6, <2>1
    <3>2. src[p + 1] \in Hex
      BY <1>7, <3>1, Kinds
    <3> QED BY <3>2, CloserApart DEF HexPrefix
  <2>2. CASE p + 1 = q
    <3>1. src[p + 1] \in Closers
      BY <1>4, <2>2
    <3> QED BY <3>1, CloserApart DEF HexPrefix
  <2> QED BY <1>2, <1>6, <2>1, <2>2
<1>11. End(src, p, Digit) = q
  <2>1. src[q] \notin Digit
    BY <1>4, CloserApart
  <2> QED BY <1>6, <1>7, <2>1, EndUnique DEF L
<1>12. Number(w, 10) = e.number
  <2>1. w \in Seq(Hex)
    <3>1. \A i \in 1 .. Len(w) : w[i] \in Hex
      BY <1>3, Kinds DEF k
    <3> QED BY <1>1, <3>1, SeqOver DEF Text
  <2> QED BY <1>1, <2>1, NumberSays
<1>13. lexer_next(src, p) = TokenAt(src, p)
  BY <1>6, <1>9, NoBlank DEF L
<1>14. TokenAt(src, p) = Tok("NUMBER", src, p, q, e.number)
  BY <1>6, <1>8, <1>9, <1>10, <1>11, <1>12, Zenon DEF TokenAt, L
<1>15. /\ lexer_next(src, p).type = "NUMBER"
       /\ lexer_next(src, p).value = e.number
       /\ lexer_next(src, p).next = q
  BY <1>13, <1>14, TokFields
<1> QED BY <1>15 DEF q, k, w

(* A hexadecimal number is read to its end and counts what the digits      *)
(* behind the prefix say (lexer.c:70-84).                                  *)
LEMMA HexadecimalRead ==
  ASSUME NEW src \in Text, NEW e, e.text \in Text, IsHexadecimal(e), NEW p, Stands(src, p, e.text),
         p + Len(e.text) <= Len(src), src[p + Len(e.text)] \in Closers
  PROVE  /\ lexer_next(src, p).type = "NUMBER"
         /\ lexer_next(src, p).value = e.number
         /\ lexer_next(src, p).next = p + Len(e.text)
<1> DEFINE w == e.text
           k == Len(w)
           L == Len(src)
           q == p + k
           digits == SubSeq(w, 3, k)
<1>1. /\ w \in Text /\ k >= 2 /\ w[1] = "0" /\ w[2] \in {"x", "X"}
      /\ digits \in Seq(Hex) /\ e.number = Says(digits, 16)
  BY DEF IsHexadecimal
<1>2. /\ \A i \in 1 .. k : src[p + i - 1] = w[i]
      /\ \A r \in p .. p + k - 1 : r - p + 1 \in 1 .. k /\ src[r] = w[r - p + 1]
      /\ p \in Nat \ {0} /\ k \in Nat /\ p + k \in 1 .. L + 1 /\ L \in Nat
  BY <1>1, StandsAt
<1>3. q <= L /\ src[q] \in Closers
  OBVIOUS
<1>4. /\ Len(digits) = k - 2
      /\ \A i \in 1 .. k - 2 : digits[i] = w[i + 2] /\ digits[i] \in Hex
  <2>1. k - 2 \in Nat /\ 3 \in 1 .. k + 1
    BY <1>1, <1>2
  <2>2. Len(digits) = k - 2 /\ \A i \in 1 .. k - 2 : digits[i] = w[3 + i - 1]
    BY <1>1, <1>2, <2>1 DEF Text
  <2>3. \A i \in 1 .. k - 2 : digits[i] \in Hex
    BY <1>1, <2>2
  <2>4. \A i \in 1 .. k - 2 : 3 + i - 1 = i + 2
    BY <2>1
  <2> HIDE DEF digits, k
  <2> QED BY <2>2, <2>3, <2>4
<1> HIDE DEF w, k, digits
<1>5. /\ q \in Nat /\ p + 2 <= q /\ p \in 1 .. L + 1 /\ p <= L /\ ~(p > L) /\ p < L
      /\ p + 2 \in 1 .. L + 1 /\ q \in p + 2 .. L + 1 /\ 1 \in 1 .. k /\ 2 \in 1 .. k
      /\ p + 1 - 1 = p /\ p + 2 - 1 = p + 1
  BY <1>1, <1>2, <1>3
<1>6. src[p] = "0" /\ src[p + 1] \in {"x", "X"}
  <2>1. src[p + 1 - 1] = w[1] /\ src[p + 2 - 1] = w[2]
    BY <1>2, <1>5
  <2> QED BY <1>1, <1>5, <2>1
<1>7. \A r \in p + 2 .. q - 1 : src[r] = digits[r - (p + 2) + 1] /\ src[r] \in Hex
  <2> TAKE r \in p + 2 .. q - 1
  <2>1. r \in p .. p + k - 1 /\ r - (p + 2) + 1 \in 1 .. k - 2 /\ r - (p + 2) + 1 + 2 = r - p + 1
    BY <1>2, <1>5
  <2>2. src[r] = w[r - p + 1]
    BY <1>2, <2>1
  <2>3. digits[r - (p + 2) + 1] = w[r - (p + 2) + 1 + 2] /\ digits[r - (p + 2) + 1] \in Hex
    BY <1>4, <2>1
  <2> QED BY <2>1, <2>2, <2>3
<1>8. SubSeq(src, p + 2, q - 1) = digits
  <2> DEFINE s == SubSeq(src, p + 2, q - 1)
  <2>1. k - 2 \in Nat /\ q - 1 - (p + 2) + 1 = k - 2 /\ q - 1 <= L
    BY <1>1, <1>2, <1>3
  <2>2. s \in Text /\ Len(s) = k - 2 /\ \A i \in 1 .. k - 2 : s[i] = src[p + 2 + i - 1]
    BY <1>2, <1>5, <2>1 DEF Text
  <2>3. \A i \in 1 .. k - 2 : s[i] = digits[i]
    <3> TAKE i \in 1 .. k - 2
    <3> DEFINE r == p + 2 + i - 1
    <3>1. r \in p + 2 .. q - 1 /\ r - (p + 2) + 1 = i
      BY <1>2, <2>1
    <3>2. s[i] = src[r]
      BY <2>2
    <3> HIDE DEF s, r
    <3>3. src[r] = digits[r - (p + 2) + 1]
      BY <1>7, <3>1
    <3> QED BY <3>1, <3>2, <3>3
  <2> HIDE DEF s
  <2>4. digits \in Seq(Hex) /\ s \in Seq(Character)
    BY <1>1, <2>2 DEF Text
  <2>5. s = digits
    BY <1>4, <2>2, <2>3, <2>4, SeqEqual
  <2> QED BY <2>5 DEF s
<1> HIDE DEF q, L
<1>9. /\ "0" \in Digit /\ src[p] \in Digit /\ src[p] \notin Alpha /\ src[p] \notin Blank
      /\ src[p] \notin DOMAIN Punctuation
  <2>1. "0" \in Digit
    BY DEF Digit
  <2> QED BY <1>6, <2>1, Kinds, BlankApart DEF Alnum
<1>10. HexPrefix(src, p)
  BY <1>5, <1>6 DEF HexPrefix, L
<1>11. End(src, p + 2, Hex) = q
  <2>1. src[q] \notin Hex
    BY <1>3, CloserApart
  <2> QED BY <1>5, <1>7, <2>1, EndUnique DEF L
<1>12. Number(digits, 16) = e.number
  BY <1>1, NumberSays
<1>13. lexer_next(src, p) = TokenAt(src, p)
  BY <1>5, <1>9, NoBlank DEF L
<1>14. TokenAt(src, p) = Tok("NUMBER", src, p, q, e.number)
  BY <1>5, <1>8, <1>9, <1>10, <1>11, <1>12, Zenon DEF TokenAt, L
<1>15. /\ lexer_next(src, p).type = "NUMBER"
       /\ lexer_next(src, p).value = e.number
       /\ lexer_next(src, p).next = q
  BY <1>13, <1>14, TokFields
<1> QED BY <1>15 DEF q, k, w

-----------------------------------------------------------------------------
(* Statements and expressions in a text.                                   *)

(* The table as a map.                                                     *)
Env == [n \in Defined |-> symbol_get(n)]

(* An expression is written with the characters of programs.               *)
LEMMA NameIsText == \A w \in Identifier : w \in Text /\ w \in Name /\ Len(w) \in Nat
<1> TAKE w \in Identifier
<1>1. w \in Seq(STRING) /\ w \in Name /\ \A i \in 1 .. Len(w) : w[i] \in Alnum
  BY SymbolsAssumption DEF Identifier
<1>2. \A i \in 1 .. Len(w) : w[i] \in Character
  BY <1>1 DEF Character
<1> QED BY <1>1, <1>2, SeqOver DEF Text

(* What an expression is, how it is written, and that its value is a word. *)
LEMMA ExprShape ==
  ASSUME NEW e \in Expression
  PROVE  /\ ExprText(e) \in Text
         /\ IsVar(e) => e.var \in Identifier /\ ExprText(e) = e.var
         /\ ~IsVar(e) => ExprText(e) = e.text /\ e.number \in Word
<1>1. CASE IsVar(e)
  <2>1. e \in [var : Identifier]
    <3>1. ASSUME NEW x \in [text : Seq(Hex \cup {"x", "X"}), number : Word] PROVE ~IsVar(x)
      BY DEF IsVar
    <3> QED BY <1>1, <3>1 DEF Expression
  <2>2. e.var \in Identifier
    BY <2>1
  <2> QED BY <1>1, <2>2, NameIsText DEF ExprText
<1>2. CASE ~IsVar(e)
  BY <1>2, Numeral DEF ExprText
<1> QED BY <1>1, <1>2

(* parse_expression finds the value the expression denotes in the          *)
(* environment of the table, and goes on behind it (serpentc.c:14-28).     *)
LEMMA ExprRead ==
  ASSUME NEW src \in Text, NEW e \in Expression, NEW p, Stands(src, p, ExprText(e)),
         p + Len(ExprText(e)) <= Len(src), src[p + Len(ExprText(e))] \in Closers
  PROVE  /\ lexer_next(src, p).type \in {"NUMBER", "IDENTIFIER"}
         /\ lexer_next(src, p).next = p + Len(ExprText(e))
         /\ Value(lexer_next(src, p)) = Denotes(Env, e)
<1> DEFINE t == lexer_next(src, p)
<1>1. CASE IsVar(e)
  <2>1. e.var \in Identifier /\ ExprText(e) = e.var /\ e.var \in Name
    BY <1>1, ExprShape, NameIsText
  <2>2. src[p + Len(e.var)] \notin Alnum
    BY <2>1, CloserApart
  <2>3. t.type = "IDENTIFIER" /\ t.text = e.var /\ t.next = p + Len(e.var)
    BY <2>1, <2>2, NameRead
  <2>4. Value(t) = symbol_get(e.var)
    BY <2>3 DEF Value, Is
  <2>5. e.var \notin Defined => symbol_get(e.var) = 0
    BY <2>1 DEF symbol_get, Defined
  <2>6. DOMAIN Env = Defined /\ \A n \in Defined : Env[n] = symbol_get(n)
    BY DEF Env
  <2>7. Denotes(Env, e) = IF e.var \in Defined THEN symbol_get(e.var) ELSE 0
    BY <1>1, <2>6 DEF Denotes
  <2> QED BY <2>1, <2>3, <2>4, <2>5, <2>7
<1>2. CASE ~IsVar(e)
  <2>1. ExprText(e) = e.text /\ e.text \in Text /\ (IsDecimal(e) \/ IsHexadecimal(e))
    BY <1>2, ExprShape, Numeral
  <2>2. t.type = "NUMBER" /\ t.value = e.number /\ t.next = p + Len(e.text)
    BY <2>1, DecimalRead, HexadecimalRead
  <2>3. Value(t) = e.number
    BY <2>2 DEF Value, Is
  <2>4. Denotes(Env, e) = e.number
    BY <1>2 DEF Denotes
  <2> QED BY <2>1, <2>2, <2>3, <2>4
<1> QED BY <1>1, <1>2

(* What may be written behind a name is no character of one.               *)
LEMMA Boundary ==
  ASSUME NEW src \in Text, NEW p, NEW gap \in Seq(Blank), NEW c \in DOMAIN Punctuation,
         Stands(src, p, gap), Stands(src, p + Len(gap), <<c>>)
  PROVE  src[p] \notin Alnum
<1> DEFINE k == Len(gap)
<1>1. k \in Nat /\ \A i \in 1 .. k : gap[i] \in Blank
  OBVIOUS
<1>2. p \in Nat \ {0} /\ \A i \in 1 .. k : src[p + i - 1] = gap[i]
  BY DEF Stands
<1>3. Len(<<c>>) = 1 /\ <<c>>[1] = c
  OBVIOUS
<1>4. src[p + k + 1 - 1] = c
  BY <1>3 DEF Stands
<1> HIDE DEF k
<1>5. CASE k = 0
  <2>1. p + k + 1 - 1 = p
    BY <1>2, <1>5
  <2> QED BY <1>4, <2>1, Kinds
<1>6. CASE k # 0
  <2>1. 1 \in 1 .. k /\ p + 1 - 1 = p
    BY <1>1, <1>2, <1>6
  <2>2. src[p + 1 - 1] = gap[1]
    BY <1>2, <2>1
  <2>3. src[p] \in Blank
    BY <1>1, <2>1, <2>2
  <2> QED BY <2>3, BlankApart
<1> QED BY <1>5, <1>6

(* A mark that stands in a text is the character there.                    *)
LEMMA MarkAt ==
  ASSUME NEW src \in Text, NEW p, NEW c, Stands(src, p, <<c>>)
  PROVE  p <= Len(src) /\ src[p] = c /\ p \in Nat
<1>1. Len(<<c>>) = 1 /\ <<c>>[1] = c
  OBVIOUS
<1>2. p \in Nat /\ p + 1 <= Len(src) + 1 /\ src[p + 1 - 1] = c /\ Len(src) \in Nat
  BY <1>1 DEF Stands, Text
<1>3. p + 1 - 1 = p /\ p <= Len(src)
  BY <1>2
<1> QED BY <1>2, <1>3

(* Marks and blanks are texts.                                             *)
LEMMA MarkIsText == \A c \in DOMAIN Punctuation : <<c>> \in Text /\ Len(<<c>>) = 1
BY DEF Text, Character
LEMMA GapIsText == \A gap \in Seq(Blank) : gap \in Text /\ Len(gap) \in Nat
<1> TAKE gap \in Seq(Blank)
<1>1. \A i \in 1 .. Len(gap) : gap[i] \in Character
  BY DEF Character
<1> QED BY <1>1, SeqOver DEF Text

(* Two words one behind the other.                                         *)
Side(src, p, u, v) ==
  /\ Stands(src, p, u)
  /\ Stands(src, p + Len(u), v)
  /\ p + Len(u \o v) = p + Len(u) + Len(v)
(* Of two words, one behind the other, each stands in its place.           *)
LEMMA Parts ==
  ASSUME NEW src \in Text, NEW p, NEW u \in Text, NEW v \in Text, Stands(src, p, u \o v)
  PROVE  Side(src, p, u, v)
<1>1. p \in Nat /\ Len(u) \in Nat /\ Len(v) \in Nat /\ Len(u \o v) = Len(u) + Len(v)
  BY DEF Stands, Text
<1>2. p + Len(u \o v) = p + Len(u) + Len(v)
  <2> DEFINE k == Len(u)
             l == Len(v)
             m == Len(u \o v)
  <2>1. p \in Nat /\ k \in Nat /\ l \in Nat /\ m = k + l
    BY <1>1
  <2> HIDE DEF k, l, m
  <2>2. p + m = p + k + l
    BY <2>1
  <2> QED BY <2>2 DEF k, l, m
<1> QED BY <1>2, StandsParts DEF Side

(* The parts of the two kinds of statements.                               *)
LEMMA StatementShape ==
  ASSUME NEW s \in Statement
  PROVE  /\ IsSet(s) => s.set \in Identifier /\ s.to \in Expression
         /\ ~IsSet(s) => s.call \in Identifier /\ s.with \in Seq(Expression)
<1>1. CASE s \in [set : Identifier, to : Expression]
  <2>1. IsSet(s)
    BY <1>1 DEF IsSet
  <2> QED BY <1>1, <2>1
<1>2. CASE s \in [call : Identifier, with : Seq(Expression)]
  <2>1. ~IsSet(s)
    BY <1>2 DEF IsSet
  <2> QED BY <1>2, <2>1
<1> QED BY <1>1, <1>2 DEF Statement

(* An assignment that stands in a text is read as its name, the sign, its  *)
(* expression and the semicolon, and what is read next begins behind it    *)
(* (serpentc.c:42-50).                                                     *)
LEMMA SetRead ==
  ASSUME NEW src \in Text, NEW s \in Statement, IsSet(s), NEW gap \in Seq(Blank), NEW c,
         Stands(src, c, StatementText(s, gap)),
         NEW t, t = lexer_next(src, c),
         NEW sign, sign = lexer_next(src, t.next),
         NEW e, e = lexer_next(src, sign.next),
         NEW z, z = lexer_next(src, e.next)
  PROVE  /\ t.type = "IDENTIFIER" /\ t.text = s.set
         /\ sign.type = "ASSIGN"
         /\ e.type \in {"NUMBER", "IDENTIFIER"} /\ Value(e) = Denotes(Env, s.to)
         /\ z.type = "SEMICOLON"
         /\ lexer_next(src, z.next) = lexer_next(src, c + Len(StatementText(s, gap)))
<1> DEFINE w1 == s.set
           w2 == w1 \o gap
           w3 == w2 \o <<"=">>
           w4 == w3 \o gap
           x == ExprText(s.to)
           w5 == w4 \o x
           w6 == w5 \o <<";">>
           w7 == w6 \o gap
<1>1. "=" \in DOMAIN Punctuation /\ ";" \in DOMAIN Punctuation
      /\ Punctuation["="] = "ASSIGN" /\ Punctuation[";"] = "SEMICOLON"
  BY DEF Punctuation
<1>2. s.set \in Identifier /\ s.to \in Expression
  BY StatementShape
<1>3. w1 \in Text /\ gap \in Text /\ <<"=">> \in Text /\ x \in Text /\ <<";">> \in Text
      /\ Len(<<"=">>) = 1 /\ Len(<<";">>) = 1
  BY <1>1, <1>2, NameIsText, GapIsText, MarkIsText, ExprShape
<1>4. StatementText(s, gap) = w7
  BY DEF StatementText
<1> HIDE DEF x, w1
<1>5. ASSUME NEW u \in Text, NEW v \in Text
      PROVE  u \o v \in Text
  BY DEF Text
<1>6. w2 \in Text
  BY <1>3, <1>5
<1> HIDE DEF w2
<1>7. w3 \in Text
  BY <1>3, <1>5, <1>6
<1> HIDE DEF w3
<1>8. w4 \in Text
  BY <1>3, <1>5, <1>7
<1> HIDE DEF w4
<1>9. w5 \in Text
  BY <1>3, <1>5, <1>8
<1> HIDE DEF w5
<1>10. w6 \in Text
  BY <1>3, <1>5, <1>9
<1> HIDE DEF w6, w7
<1> DEFINE p1 == c + Len(w1)
           p2 == c + Len(w2)
           p3 == c + Len(w3)
           p4 == c + Len(w4)
           p5 == c + Len(w5)
           p6 == c + Len(w6)
           p7 == c + Len(w7)
<1> HIDE DEF p1, p2, p3, p4, p5, p6, p7
<1>11. Stands(src, c, w6) /\ Stands(src, p6, gap) /\ p7 = p6 + Len(gap)
  <2>1. Stands(src, c, w6 \o gap)
    BY <1>4 DEF w7
  <2>2. Side(src, c, w6, gap)
    BY <1>3, <1>10, <2>1, Parts
  <2>3. Stands(src, c, w6) /\ Stands(src, c + Len(w6), gap) /\ c + Len(w6 \o gap) = c + Len(w6) + Len(gap)
    BY <2>2, Zenon DEF Side
  <2> QED BY <1>3, <2>3 DEF w7, p6, p7
<1>12. Stands(src, c, w5) /\ Stands(src, p5, <<";">>) /\ p6 = p5 + 1
  <2>1. Stands(src, c, w5 \o <<";">>)
    BY <1>11 DEF w6
  <2>2. Side(src, c, w5, <<";">>)
    BY <1>3, <1>9, <2>1, Parts
  <2>3. Stands(src, c, w5) /\ Stands(src, c + Len(w5), <<";">>) /\ c + Len(w5 \o <<";">>) = c + Len(w5) + Len(<<";">>)
    BY <2>2, Zenon DEF Side
  <2> QED BY <1>3, <2>3 DEF w6, p5, p6
<1>13. Stands(src, c, w4) /\ Stands(src, p4, x) /\ p5 = p4 + Len(x)
  <2>1. Stands(src, c, w4 \o x)
    BY <1>12 DEF w5
  <2>2. Side(src, c, w4, x)
    BY <1>3, <1>8, <2>1, Parts
  <2>3. Stands(src, c, w4) /\ Stands(src, c + Len(w4), x) /\ c + Len(w4 \o x) = c + Len(w4) + Len(x)
    BY <2>2, Zenon DEF Side
  <2> QED BY <1>3, <2>3 DEF w5, p4, p5
<1>14. Stands(src, c, w3) /\ Stands(src, p3, gap) /\ p4 = p3 + Len(gap)
  <2>1. Stands(src, c, w3 \o gap)
    BY <1>13 DEF w4
  <2>2. Side(src, c, w3, gap)
    BY <1>3, <1>7, <2>1, Parts
  <2>3. Stands(src, c, w3) /\ Stands(src, c + Len(w3), gap) /\ c + Len(w3 \o gap) = c + Len(w3) + Len(gap)
    BY <2>2, Zenon DEF Side
  <2> QED BY <1>3, <2>3 DEF w4, p3, p4
<1>15. Stands(src, c, w2) /\ Stands(src, p2, <<"=">>) /\ p3 = p2 + 1
  <2>1. Stands(src, c, w2 \o <<"=">>)
    BY <1>14 DEF w3
  <2>2. Side(src, c, w2, <<"=">>)
    BY <1>3, <1>6, <2>1, Parts
  <2>3. Stands(src, c, w2) /\ Stands(src, c + Len(w2), <<"=">>) /\ c + Len(w2 \o <<"=">>) = c + Len(w2) + Len(<<"=">>)
    BY <2>2, Zenon DEF Side
  <2> QED BY <1>3, <2>3 DEF w3, p2, p3
<1>16. Stands(src, c, w1) /\ Stands(src, p1, gap) /\ p2 = p1 + Len(gap)
  <2>1. Stands(src, c, w1 \o gap)
    BY <1>15 DEF w2
  <2>2. Side(src, c, w1, gap)
    BY <1>3, <1>3, <2>1, Parts
  <2>3. Stands(src, c, w1) /\ Stands(src, c + Len(w1), gap) /\ c + Len(w1 \o gap) = c + Len(w1) + Len(gap)
    BY <2>2, Zenon DEF Side
  <2> QED BY <1>3, <2>3 DEF w2, p1, p2
<1>17. t.type = "IDENTIFIER" /\ t.text = s.set /\ t.next = p1
  <2>1. Stands(src, p1 + Len(gap), <<"=">>)
    BY <1>15, <1>16
  <2>2. src[p1] \notin Alnum
    BY <1>1, <1>16, <2>1, Boundary
  <2>3. src[c + Len(s.set)] \notin Alnum /\ Stands(src, c, s.set)
    BY <1>16, <2>2 DEF w1, p1
  <2>4. t.type = "IDENTIFIER" /\ t.text = s.set /\ t.next = c + Len(s.set)
    BY <1>2, <2>3, NameRead
  <2> QED BY <2>4 DEF w1, p1
<1>18. sign.type = "ASSIGN" /\ sign.next = p3
  <2>1. lexer_next(src, p1) = lexer_next(src, p1 + Len(gap))
    BY <1>16, BlanksSkipped
  <2>2. sign = lexer_next(src, p2)
    BY <1>16, <1>17, <2>1
  <2>3. sign.type = Punctuation["="] /\ sign.next = p2 + 1
    <3>1. lexer_next(src, p2).type = Punctuation["="] /\ lexer_next(src, p2).next = p2 + 1
      BY <1>1, <1>15, MarkRead, Zenon
    <3> QED BY <2>2, <3>1
  <2> QED BY <1>1, <1>15, <2>3
<1>19. e = lexer_next(src, p4)
  <2>1. lexer_next(src, p3) = lexer_next(src, p3 + Len(gap))
    BY <1>14, BlanksSkipped
  <2> QED BY <1>14, <1>18, <2>1
<1>20. /\ e.type \in {"NUMBER", "IDENTIFIER"}
       /\ e.next = p5
       /\ Value(e) = Denotes(Env, s.to)
  <2>1. p5 <= Len(src) /\ src[p5] \in Closers
    BY <1>12, MarkAt DEF Closers
  <2>2. p4 + Len(x) <= Len(src) /\ src[p4 + Len(x)] \in Closers
    BY <1>13, <2>1
  <2>3. /\ lexer_next(src, p4).type \in {"NUMBER", "IDENTIFIER"}
        /\ lexer_next(src, p4).next = p4 + Len(x)
        /\ Value(lexer_next(src, p4)) = Denotes(Env, s.to)
    BY <1>2, <1>13, <2>2, ExprRead DEF x
  <2> QED BY <1>13, <1>19, <2>3
<1>21. z.type = "SEMICOLON" /\ z.next = p6
  <2>1. z = lexer_next(src, p5)
    BY <1>20
  <2>2. z.type = Punctuation[";"] /\ z.next = p5 + 1
    <3>1. lexer_next(src, p5).type = Punctuation[";"] /\ lexer_next(src, p5).next = p5 + 1
      BY <1>1, <1>12, MarkRead, Zenon
    <3> QED BY <2>1, <3>1
  <2> QED BY <1>1, <1>12, <2>2
<1>22. lexer_next(src, p6) = lexer_next(src, p7)
  <2>1. lexer_next(src, p6) = lexer_next(src, p6 + Len(gap))
    BY <1>11, BlanksSkipped
  <2> QED BY <1>11, <2>1
<1>23. c + Len(StatementText(s, gap)) = p7
  BY <1>4 DEF p7
<1> QED BY <1>17, <1>18, <1>20, <1>21, <1>22, <1>23

(* The list of a call is written entry by entry.                           *)
Entries(es, gap) == [n \in 1 .. Len(es) |-> Entry(es, n, gap)]

LEMMA WrittenBy ==
  ASSUME NEW a \in Text, NEW N \in Nat, NEW piece \in [1 .. N -> Text],
         NEW f, f = [n \in 0 .. N |-> IF n = 0 THEN a ELSE f[n - 1] \o piece[n]]
  PROVE  Written(f, a, piece, N)
<1>1. \A n \in 0 .. N : f[n] = IF n = 0 THEN a ELSE f[n - 1] \o piece[n]
  BY Zenon
<1>2. f[0] = a /\ \A n \in 1 .. N : f[n] = f[n - 1] \o piece[n]
  <2>1. 0 \in 0 .. N /\ \A n \in 1 .. N : n \in 0 .. N /\ n # 0
    OBVIOUS
  <2> QED BY <1>1, <2>1, Zenon
<1> DEFINE T == {n \in 0 .. N : f[n] \in Text}
<1>3. 0 \in T
  BY <1>2
<1>4. ASSUME NEW n \in 1 .. N, n - 1 \in T
      PROVE  n \in T
  <2>1. f[n - 1] \in Text /\ piece[n] \in Text
    BY <1>4
  <2>2. f[n] = f[n - 1] \o piece[n]
    BY <1>2
  <2>3. f[n] \in Text
    BY <2>1, <2>2, Joined
  <2> QED BY <2>3
<1> HIDE DEF T
<1>5. \A n \in 0 .. N : n \in T
  BY <1>3, <1>4, HandedOn
<1>6. \A n \in 0 .. N : f[n] \in Text
  BY <1>5 DEF T
<1>7. f = [n \in 0 .. N |-> f[n]]
  BY <1>1, Zenon
<1>8. f \in [0 .. N -> Text]
  BY <1>6, <1>7, Zenon
<1> QED BY <1>2, <1>8 DEF Written

(* The texts of a program and of a list are written piece by piece.        *)
LEMMA SpelledWritten ==
  ASSUME NEW a \in Text, NEW pieces \in Seq(Text)
  PROVE  Written(Spelled(a, pieces), a, pieces, Len(pieces))
<1> DEFINE N == Len(pieces)
           f == CHOOSE f : f = [n \in 0 .. N |-> IF n = 0 THEN a ELSE f[n - 1] \o pieces[n]]
<1>1. N \in Nat /\ pieces \in [1 .. N -> Text]
  OBVIOUS
<1>2. \E g : g = [n \in 0 .. N |-> IF n = 0 THEN a ELSE g[n - 1] \o pieces[n]]
  <2> HIDE DEF N
  <2> QED BY <1>1, WrittenExists
<1>3. f = [n \in 0 .. N |-> IF n = 0 THEN a ELSE f[n - 1] \o pieces[n]]
  BY <1>2, Zenon
<1>4. Spelled(a, pieces) = f
  BY Zenon DEF Spelled
<1> HIDE DEF f, N
<1>5. Written(f, a, pieces, N)
  BY <1>1, <1>3, WrittenBy
<1> QED BY <1>4, <1>5 DEF N

LEMMA ListWritten ==
  ASSUME NEW es \in Seq(Expression), NEW gap \in Seq(Blank)
  PROVE  /\ Entries(es, gap) \in [1 .. Len(es) -> Text]
         /\ Written(ListTo(es, gap), << >>, Entries(es, gap), Len(es))
         /\ ListText(es, gap) \in Text
<1> DEFINE N == Len(es)
           piece == Entries(es, gap)
<1>1. N \in Nat /\ << >> \in Text
  BY DEF Text
<1>2. \A n \in 1 .. N : Entry(es, n, gap) \in Text
  <2> TAKE n \in 1 .. N
  <2>1. es[n] \in Expression
    OBVIOUS
  <2>2. ExprText(es[n]) \in Text /\ gap \in Text /\ <<",">> \in Text
    <3>1. "," \in DOMAIN Punctuation
      BY DEF Punctuation
    <3> QED BY <2>1, <3>1, ExprShape, GapIsText, MarkIsText
  <2> DEFINE x == ExprText(es[n])
             y == <<",">>
  <2> HIDE DEF x, y
  <2>3. x \in Text /\ y \in Text
    BY <2>2 DEF x, y
  <2>4. << >> \o x \in Text /\ (y \o gap) \o x \in Text
    BY <1>1, <2>2, <2>3, Joined
  <2>5. CASE n = 1
    BY <2>4, <2>5, Zenon DEF Entry, x
  <2>6. CASE n # 1
    BY <2>4, <2>6, Zenon DEF Entry, x, y
  <2> QED BY <2>5, <2>6
<1>3. piece \in [1 .. N -> Text] /\ \A n \in 1 .. N : piece[n] = Entry(es, n, gap)
  BY <1>2 DEF Entries
<1> HIDE DEF piece, N
<1>4. piece \in Seq(Text) /\ Len(piece) = N
  BY <1>1, <1>3
<1>5. ListTo(es, gap) = Spelled(<< >>, piece)
  BY Zenon DEF ListTo, piece, Entries, N
<1>6. Written(ListTo(es, gap), << >>, piece, N)
  BY <1>1, <1>4, <1>5, SpelledWritten
<1>7. ListTo(es, gap)[N] \in Text
  <2>1. N \in 0 .. N
    BY <1>1
  <2> QED BY <1>6, <2>1 DEF Written
<1> QED BY <1>3, <1>6, <1>7 DEF N, piece, ListText

(* A call that stands in a text is read as its name and the bracket; then  *)
(* comes its list, the other bracket and the semicolon                     *)
(* (serpentc.c:52-76).                                                     *)
ListPlace(c, s, gap) == c + Len(s.call \o <<"(">> \o gap)

(* A call is read as its name, a bracket, the list, a bracket and a        *)
(* semicolon (serpentc.c:54-79).                                           *)
LEMMA CallRead ==
  ASSUME NEW src \in Text, NEW s \in Statement, ~IsSet(s), NEW gap \in Seq(Blank), NEW c,
         Stands(src, c, StatementText(s, gap)),
         NEW t, t = lexer_next(src, c),
         NEW paren, paren = lexer_next(src, t.next),
         NEW l, l = ListPlace(c, s, gap),
         NEW x, x = ListText(s.with, gap),
         NEW close, close = lexer_next(src, l + Len(x)),
         NEW z, z = lexer_next(src, close.next)
  PROVE  /\ t.type = "IDENTIFIER" /\ t.text = s.call
         /\ paren.type = "LPAREN"
         /\ lexer_next(src, paren.next) = lexer_next(src, l)
         /\ Stands(src, l, x) /\ Stands(src, l + Len(x), <<")">>)
         /\ close.type = "RPAREN"
         /\ z.type = "SEMICOLON"
         /\ z.next = c + Len(StatementText(s, gap))
<1> DEFINE w1 == s.call
           w2 == w1 \o <<"(">>
           w3 == w2 \o gap
           w4 == w3 \o x
           w5 == w4 \o <<")">>
           w6 == w5 \o gap
           w7 == w6 \o <<";">>
<1>1. "(" \in DOMAIN Punctuation /\ ")" \in DOMAIN Punctuation /\ ";" \in DOMAIN Punctuation
      /\ Punctuation["("] = "LPAREN" /\ Punctuation[")"] = "RPAREN" /\ Punctuation[";"] = "SEMICOLON"
  BY DEF Punctuation
<1>2. s.call \in Identifier /\ s.with \in Seq(Expression)
  BY StatementShape
<1>3. w1 \in Text /\ gap \in Text /\ <<"(">> \in Text /\ x \in Text /\ <<")">> \in Text /\ <<";">> \in Text
      /\ Len(<<"(">>) = 1 /\ Len(<<")">>) = 1 /\ Len(<<";">>) = 1
  BY <1>1, <1>2, NameIsText, GapIsText, MarkIsText, ListWritten
<1>4. StatementText(s, gap) = w7 /\ l = c + Len(w3)
  BY DEF StatementText, ListPlace
<1> HIDE DEF w1
<1>5. w2 \in Text
  BY <1>3, <1>3, Joined
<1> HIDE DEF w2
<1>6. w3 \in Text
  BY <1>3, <1>5, Joined
<1> HIDE DEF w3
<1>7. w4 \in Text
  BY <1>3, <1>6, Joined
<1> HIDE DEF w4
<1>8. w5 \in Text
  BY <1>3, <1>7, Joined
<1> HIDE DEF w5
<1>9. w6 \in Text
  BY <1>3, <1>8, Joined
<1> HIDE DEF w6
<1>10. w7 \in Text
  BY <1>3, <1>9, Joined
<1> HIDE DEF w7
<1> DEFINE p1 == c + Len(w1)
           p2 == c + Len(w2)
           p3 == c + Len(w3)
           p4 == c + Len(w4)
           p5 == c + Len(w5)
           p6 == c + Len(w6)
           p7 == c + Len(w7)
<1> HIDE DEF p1, p2, p3, p4, p5, p6, p7
<1>11. Stands(src, c, w6) /\ Stands(src, p6, <<";">>) /\ p7 = p6 + 1
  <2>1. Stands(src, c, w6 \o <<";">>)
    BY <1>4 DEF w7
  <2>2. Side(src, c, w6, <<";">>)
    BY <1>3, <1>9, <2>1, Parts
  <2>3. Stands(src, c, w6) /\ Stands(src, c + Len(w6), <<";">>) /\ c + Len(w6 \o <<";">>) = c + Len(w6) + Len(<<";">>)
    BY <2>2, Zenon DEF Side
  <2> QED BY <1>3, <2>3 DEF w7, p6, p7
<1>12. Stands(src, c, w5) /\ Stands(src, p5, gap) /\ p6 = p5 + Len(gap)
  <2>1. Stands(src, c, w5 \o gap)
    BY <1>11 DEF w6
  <2>2. Side(src, c, w5, gap)
    BY <1>3, <1>8, <2>1, Parts
  <2>3. Stands(src, c, w5) /\ Stands(src, c + Len(w5), gap) /\ c + Len(w5 \o gap) = c + Len(w5) + Len(gap)
    BY <2>2, Zenon DEF Side
  <2> QED BY <1>3, <2>3 DEF w6, p5, p6
<1>13. Stands(src, c, w4) /\ Stands(src, p4, <<")">>) /\ p5 = p4 + 1
  <2>1. Stands(src, c, w4 \o <<")">>)
    BY <1>12 DEF w5
  <2>2. Side(src, c, w4, <<")">>)
    BY <1>3, <1>7, <2>1, Parts
  <2>3. Stands(src, c, w4) /\ Stands(src, c + Len(w4), <<")">>) /\ c + Len(w4 \o <<")">>) = c + Len(w4) + Len(<<")">>)
    BY <2>2, Zenon DEF Side
  <2> QED BY <1>3, <2>3 DEF w5, p4, p5
<1>14. Stands(src, c, w3) /\ Stands(src, p3, x) /\ p4 = p3 + Len(x)
  <2>1. Stands(src, c, w3 \o x)
    BY <1>13 DEF w4
  <2>2. Side(src, c, w3, x)
    BY <1>3, <1>6, <2>1, Parts
  <2>3. Stands(src, c, w3) /\ Stands(src, c + Len(w3), x) /\ c + Len(w3 \o x) = c + Len(w3) + Len(x)
    BY <2>2, Zenon DEF Side
  <2> QED BY <1>3, <2>3 DEF w4, p3, p4
<1>15. Stands(src, c, w2) /\ Stands(src, p2, gap) /\ p3 = p2 + Len(gap)
  <2>1. Stands(src, c, w2 \o gap)
    BY <1>14 DEF w3
  <2>2. Side(src, c, w2, gap)
    BY <1>3, <1>5, <2>1, Parts
  <2>3. Stands(src, c, w2) /\ Stands(src, c + Len(w2), gap) /\ c + Len(w2 \o gap) = c + Len(w2) + Len(gap)
    BY <2>2, Zenon DEF Side
  <2> QED BY <1>3, <2>3 DEF w3, p2, p3
<1>16. Stands(src, c, w1) /\ Stands(src, p1, <<"(">>) /\ p2 = p1 + 1
  <2>1. Stands(src, c, w1 \o <<"(">>)
    BY <1>15 DEF w2
  <2>2. Side(src, c, w1, <<"(">>)
    BY <1>3, <1>3, <2>1, Parts
  <2>3. Stands(src, c, w1) /\ Stands(src, c + Len(w1), <<"(">>) /\ c + Len(w1 \o <<"(">>) = c + Len(w1) + Len(<<"(">>)
    BY <2>2, Zenon DEF Side
  <2> QED BY <1>3, <2>3 DEF w2, p1, p2
<1>17. t.type = "IDENTIFIER" /\ t.text = s.call /\ t.next = p1
  <2>1. src[p1] = "("
    BY <1>16, MarkAt
  <2>2. src[p1] \notin Alnum
    BY <1>1, <2>1, Kinds
  <2>3. src[c + Len(s.call)] \notin Alnum /\ Stands(src, c, s.call)
    BY <1>16, <2>2 DEF w1, p1
  <2>4. t.type = "IDENTIFIER" /\ t.text = s.call /\ t.next = c + Len(s.call)
    BY <1>2, <2>3, NameRead
  <2> QED BY <2>4 DEF w1, p1
<1>18. paren.type = "LPAREN" /\ paren.next = p2
  <2>1. lexer_next(src, p1).type = Punctuation["("] /\ lexer_next(src, p1).next = p1 + 1
    BY <1>1, <1>16, MarkRead, Zenon
  <2>2. paren = lexer_next(src, p1)
    BY <1>17
  <2> QED BY <1>1, <1>16, <2>1, <2>2
<1>19. lexer_next(src, p2) = lexer_next(src, p3)
  <2>1. lexer_next(src, p2) = lexer_next(src, p2 + Len(gap))
    BY <1>15, BlanksSkipped
  <2> QED BY <1>15, <2>1
<1>20. l = p3 /\ l + Len(x) = p4
  BY <1>4, <1>14 DEF p3
<1>21. close.type = "RPAREN" /\ close.next = p5
  <2>1. lexer_next(src, p4).type = Punctuation[")"] /\ lexer_next(src, p4).next = p4 + 1
    BY <1>1, <1>13, MarkRead, Zenon
  <2>2. close = lexer_next(src, p4)
    BY <1>20
  <2> QED BY <1>1, <1>13, <2>1, <2>2
<1>22. lexer_next(src, p5) = lexer_next(src, p6)
  <2>1. lexer_next(src, p5) = lexer_next(src, p5 + Len(gap))
    BY <1>12, BlanksSkipped
  <2> QED BY <1>12, <2>1
<1>23. z.type = "SEMICOLON" /\ z.next = p7
  <2>1. lexer_next(src, p6).type = Punctuation[";"] /\ lexer_next(src, p6).next = p6 + 1
    BY <1>1, <1>11, MarkRead, Zenon
  <2>2. z = lexer_next(src, p6)
    BY <1>21, <1>22
  <2> QED BY <1>1, <1>11, <2>1, <2>2
<1>24. c + Len(StatementText(s, gap)) = p7
  BY <1>4 DEF p7
<1> QED BY <1>17, <1>18, <1>19, <1>20, <1>14, <1>13, <1>21, <1>23, <1>24

(* Where the interpreter is when it has read k entries of the list that    *)
(* stands at l: at the next one, or at the bracket.                        *)
ArgPlace(es, gap, l, k) ==
  IF k \in 1 .. Len(es) - 1 THEN l + Len(ListTo(es, gap)[k]) + 1 + Len(gap) ELSE l + Len(ListTo(es, gap)[k])

(* An entry stands behind the ones before.                                 *)
LEMMA EntryStands ==
  ASSUME NEW src \in Text, NEW es \in Seq(Expression), NEW gap \in Seq(Blank), NEW l,
         Stands(src, l, ListText(es, gap)), NEW n \in 1 .. Len(es)
  PROVE  /\ Stands(src, l + Len(ListTo(es, gap)[n - 1]), Entry(es, n, gap))
         /\ Len(ListTo(es, gap)[n]) = Len(ListTo(es, gap)[n - 1]) + Len(Entry(es, n, gap))
         /\ Len(ListTo(es, gap)[n - 1]) \in Nat /\ Len(Entry(es, n, gap)) \in Nat /\ l \in Nat
         /\ Entry(es, n, gap) \in Text
<1> DEFINE g == ListTo(es, gap)
           N == Len(es)
           piece == Entries(es, gap)
           E == Entry(es, n, gap)
<1>1. /\ piece \in [1 .. N -> Text] /\ Written(g, << >>, piece, N) /\ N \in Nat
      /\ ListText(es, gap) = g[N] /\ g[N] \in Text
  BY ListWritten DEF ListText
<1>2. piece[n] = E
  BY DEF Entries
<1> HIDE DEF g, piece, E
<1>3. /\ g[n - 1] \in Text /\ E \in Text /\ g[n] = g[n - 1] \o E
  <2>1. g \in [0 .. N -> Text] /\ n - 1 \in 0 .. N /\ g[n] = g[n - 1] \o piece[n]
    BY <1>1 DEF Written
  <2> QED BY <1>1, <1>2, <2>1
<1>4. Len(g[n]) = Len(g[n - 1]) + Len(E) /\ Len(g[n - 1]) \in Nat /\ Len(E) \in Nat
  <2>1. Len(g[n - 1] \o E) = Len(g[n - 1]) + Len(E)
    BY <1>3, Joined
  <2>2. Len(E) \in Nat
    BY <1>3 DEF Text
  <2> QED BY <1>3, <2>1, <2>2, Joined
<1>5. Stands(g[N], Len(g[n - 1]) + 1, E)
  <2>1. \A m \in 1 .. N : Stands(g[N], Len(g[m - 1]) + 1, piece[m])
    BY <1>1, PiecesStand
  <2> QED BY <1>2, <2>1
<1>6. Stands(src, l, g[N]) /\ l \in Nat
  BY <1>1 DEF Stands
<1>7. Stands(src, l + (Len(g[n - 1]) + 1) - 1, E)
  <2> DEFINE q == Len(g[n - 1]) + 1
  <2>1. Stands(g[N], q, E)
    BY <1>5
  <2> HIDE DEF q
  <2>2. Stands(src, l + q - 1, E)
    BY <1>1, <1>3, <1>6, <2>1, StandsIn
  <2> QED BY <2>2 DEF q
<1>8. l + (Len(g[n - 1]) + 1) - 1 = l + Len(g[n - 1])
  BY <1>4, <1>6
<1> QED BY <1>3, <1>4, <1>6, <1>7, <1>8 DEF g, E

(* An argument is read with its value, and what is read next is the comma  *)
(* in front of the next one or the bracket (serpentc.c:58-69).             *)
LEMMA ArgRead ==
  ASSUME NEW src \in Text, NEW es \in Seq(Expression), NEW gap \in Seq(Blank), NEW l,
         Stands(src, l, ListText(es, gap)), Stands(src, l + Len(ListText(es, gap)), <<")">>),
         NEW k \in 0 .. Len(es) - 1,
         NEW t, t = lexer_next(src, ArgPlace(es, gap, l, k)),
         NEW a, a = lexer_next(src, t.next)
  PROVE  /\ t.type \in {"NUMBER", "IDENTIFIER"}
         /\ Value(t) = Denotes(Env, es[k + 1])
         /\ k + 1 < Len(es) => /\ a.type = "COMMA"
                               /\ lexer_next(src, a.next) = lexer_next(src, ArgPlace(es, gap, l, k + 1))
         /\ k + 1 = Len(es) => a.type = "RPAREN" /\ a = lexer_next(src, ArgPlace(es, gap, l, k + 1))
<1> DEFINE g == ListTo(es, gap)
           N == Len(es)
           n == k + 1
           e == es[n]
           x == ExprText(e)
           q == ArgPlace(es, gap, l, k)
           r == l + Len(g[n])
<1>0. "," \in DOMAIN Punctuation /\ ")" \in DOMAIN Punctuation
      /\ Punctuation[","] = "COMMA" /\ Punctuation[")"] = "RPAREN"
  BY DEF Punctuation
<1>1. N \in Nat /\ n \in 1 .. N /\ n - 1 = k /\ k \in Nat
  OBVIOUS
<1> HIDE DEF n
<1>2. e \in Expression
  BY <1>1
<1>3. x \in Text /\ gap \in Text /\ <<",">> \in Text /\ Len(<<",">>) = 1
  BY <1>0, <1>2, ExprShape, GapIsText, MarkIsText
<1>4. /\ Stands(src, l + Len(g[k]), Entry(es, n, gap))
      /\ Len(g[n]) = Len(g[k]) + Len(Entry(es, n, gap))
      /\ Len(g[k]) \in Nat /\ Len(Entry(es, n, gap)) \in Nat /\ l \in Nat
  <2>1. /\ Stands(src, l + Len(g[n - 1]), Entry(es, n, gap))
        /\ Len(g[n]) = Len(g[n - 1]) + Len(Entry(es, n, gap))
        /\ Len(g[n - 1]) \in Nat /\ Len(Entry(es, n, gap)) \in Nat /\ l \in Nat
    BY <1>1, EntryStands
  <2> QED BY <1>1, <2>1
<1>5. /\ n = 1 => Entry(es, n, gap) = << >> \o x
      /\ n # 1 => Entry(es, n, gap) = (<<",">> \o gap) \o x
  BY Zenon DEF Entry
<1> HIDE DEF x, e, g
<1>6. /\ Stands(src, q, x) /\ q + Len(x) = r
      /\ n # 1 => Stands(src, l + Len(g[k]), <<",">>) /\ Stands(src, l + Len(g[k]) + 1, gap)
                  /\ q = l + Len(g[k]) + 1 + Len(gap)
  <2> DEFINE d == l + Len(g[k])
  <2>1. d \in Nat
    BY <1>4
  <2>2. r = d + Len(Entry(es, n, gap))
    <3> DEFINE i == Len(g[n])
               j == Len(g[k])
               m == Len(Entry(es, n, gap))
    <3>1. i = j + m /\ j \in Nat /\ m \in Nat /\ l \in Nat
      BY <1>4
    <3> HIDE DEF i, j, m
    <3>2. l + i = l + j + m
      BY <3>1
    <3> QED BY <3>2 DEF i, j, m
  <2> HIDE DEF d, r, n
  <2>3. CASE n = 1
    <3>1. q = d
      BY <1>1, <2>3 DEF ArgPlace, d, g
    <3>2. Entry(es, n, gap) = x
      <4>1. << >> \o x = x
        BY <1>3, ConcatEmptySeq DEF Text
      <4> QED BY <1>5, <2>3, <4>1
    <3> QED BY <1>4, <2>2, <2>3, <3>1, <3>2 DEF d
  <2>4. CASE n # 1
    <3>1. q = d + 1 + Len(gap)
      <4>1. k \in 1 .. N - 1
        BY <1>1, <2>4
      <4>2. q = l + Len(g[k]) + 1 + Len(gap)
        BY <4>1, Zenon DEF ArgPlace, g
      <4> QED BY <4>2 DEF d
    <3> DEFINE y == <<",">> \o gap
               E == Entry(es, n, gap)
    <3>2. y \in Text /\ E = y \o x /\ Stands(src, d, y \o x)
      BY <1>3, <1>4, <1>5, <2>4, Joined DEF d
    <3>3. Side(src, d, y, x)
      BY <1>3, <3>2, Parts
    <3>4. Stands(src, d, y) /\ Stands(src, d + Len(y), x) /\ d + Len(y \o x) = d + Len(y) + Len(x)
      BY <3>3, Zenon DEF Side
    <3>5. Side(src, d, <<",">>, gap)
      BY <1>3, <3>4, Parts
    <3>6. Stands(src, d, <<",">>) /\ Stands(src, d + 1, gap) /\ d + Len(y) = d + 1 + Len(gap)
      BY <1>3, <3>5 DEF Side
    <3> HIDE DEF y, E, q
    <3>7. Stands(src, q, x) /\ q + Len(x) = r
      BY <2>2, <3>1, <3>2, <3>4, <3>6 DEF E
    <3> QED BY <2>4, <3>1, <3>6, <3>7 DEF d
  <2> QED BY <2>3, <2>4
<1> HIDE DEF q, r, n
<1>7. ASSUME n < N
      PROVE  /\ t.type \in {"NUMBER", "IDENTIFIER"}
             /\ Value(t) = Denotes(Env, e)
             /\ n < N => /\ a.type = "COMMA"
                         /\ lexer_next(src, a.next) = lexer_next(src, ArgPlace(es, gap, l, n))
             /\ n = N => a.type = "RPAREN" /\ a = lexer_next(src, ArgPlace(es, gap, l, n))
  <2>1. n + 1 \in 1 .. N /\ n + 1 # 1 /\ n + 1 - 1 = n
    BY <1>1, <1>7
  <2> DEFINE E == Entry(es, n + 1, gap)
             x2 == ExprText(es[n + 1])
  <2>2. Stands(src, r, E) /\ E \in Text
    <3> DEFINE m == n + 1
    <3>1. m \in 1 .. N /\ m - 1 = n
      BY <1>1, <2>1
    <3> HIDE DEF m
    <3>2. Stands(src, l + Len(g[m - 1]), Entry(es, m, gap)) /\ Entry(es, m, gap) \in Text
      BY <3>1, EntryStands DEF g
    <3> QED BY <3>1, <3>2, Zenon DEF r, m
  <2>3. x2 \in Text
    BY <2>1, ExprShape
  <2>4. E = (<<",">> \o gap) \o x2
    BY <2>1, Zenon DEF Entry
  <2> DEFINE y == <<",">> \o gap
  <2>5. y \in Text /\ Stands(src, r, y \o x2)
    BY <1>3, <2>2, <2>4, Joined
  <2> HIDE DEF E, x2
  <2>6. Side(src, r, y, x2)
    BY <2>3, <2>5, Parts
  <2>7. Stands(src, r, y)
    BY <2>6, Zenon DEF Side
  <2>8. Side(src, r, <<",">>, gap)
    BY <1>3, <2>7, Parts
  <2>9. Stands(src, r, <<",">>) /\ Stands(src, r + 1, gap)
    BY <1>3, <2>8 DEF Side
  <2>10. r <= Len(src) /\ src[r] \in Closers
    BY <2>9, MarkAt DEF Closers
  <2>11. /\ lexer_next(src, q).type \in {"NUMBER", "IDENTIFIER"}
         /\ lexer_next(src, q).next = q + Len(x)
         /\ Value(lexer_next(src, q)) = Denotes(Env, e)
    BY <1>2, <1>6, <2>10, ExprRead DEF x
  <2>12. lexer_next(src, r).type = Punctuation[","] /\ lexer_next(src, r).next = r + 1
    BY <1>0, <2>9, MarkRead, Zenon
  <2>13. lexer_next(src, r + 1) = lexer_next(src, r + 1 + Len(gap))
    BY <2>9, BlanksSkipped
  <2>14. ArgPlace(es, gap, l, n) = r + 1 + Len(gap)
    <3>1. n \in 1 .. N - 1
      BY <1>1, <1>7
    <3> QED BY <3>1, Zenon DEF ArgPlace, r, g
  <2>15. t = lexer_next(src, q) /\ a = lexer_next(src, r)
    BY <1>6, <2>11 DEF q
  <2>16. t.type \in {"NUMBER", "IDENTIFIER"} /\ Value(t) = Denotes(Env, e)
    BY <2>11, <2>15
  <2>17. a.type = "COMMA" /\ lexer_next(src, a.next) = lexer_next(src, ArgPlace(es, gap, l, n))
    BY <1>0, <2>12, <2>13, <2>14, <2>15
  <2>18. n # N
    BY <1>1, <1>7
  <2> QED BY <2>16, <2>17, <2>18
<1>8. ASSUME n = N
      PROVE  /\ t.type \in {"NUMBER", "IDENTIFIER"}
             /\ Value(t) = Denotes(Env, e)
             /\ n < N => /\ a.type = "COMMA"
                         /\ lexer_next(src, a.next) = lexer_next(src, ArgPlace(es, gap, l, n))
             /\ n = N => a.type = "RPAREN" /\ a = lexer_next(src, ArgPlace(es, gap, l, n))
  <2>1. ListText(es, gap) = g[n]
    BY <1>8 DEF ListText, g
  <2>2. Stands(src, r, <<")">>)
    BY <2>1 DEF r
  <2>3. r <= Len(src) /\ src[r] \in Closers
    BY <2>2, MarkAt DEF Closers
  <2>4. /\ lexer_next(src, q).type \in {"NUMBER", "IDENTIFIER"}
        /\ lexer_next(src, q).next = q + Len(x)
        /\ Value(lexer_next(src, q)) = Denotes(Env, e)
    BY <1>2, <1>6, <2>3, ExprRead DEF x
  <2>5. lexer_next(src, r).type = Punctuation[")"]
    BY <1>0, <2>2, MarkRead, Zenon
  <2>6. ArgPlace(es, gap, l, n) = r
    <3>1. ~(n \in 1 .. N - 1)
      BY <1>1, <1>8
    <3> QED BY <3>1, Zenon DEF ArgPlace, r, g
  <2>7. t = lexer_next(src, q) /\ a = lexer_next(src, r)
    BY <1>6, <2>4 DEF q
  <2>8. t.type \in {"NUMBER", "IDENTIFIER"} /\ Value(t) = Denotes(Env, e)
    BY <2>4, <2>7
  <2>9. a.type = "RPAREN" /\ a = lexer_next(src, ArgPlace(es, gap, l, n))
    BY <1>0, <2>5, <2>6, <2>7
  <2>10. ~(n < N)
    BY <1>1, <1>8
  <2> QED BY <2>8, <2>9, <2>10
<1>9. /\ t.type \in {"NUMBER", "IDENTIFIER"}
      /\ Value(t) = Denotes(Env, e)
      /\ n < N => /\ a.type = "COMMA"
                  /\ lexer_next(src, a.next) = lexer_next(src, ArgPlace(es, gap, l, n))
      /\ n = N => a.type = "RPAREN" /\ a = lexer_next(src, ArgPlace(es, gap, l, n))
  <2>1. n < N \/ n = N
    BY <1>1
  <2> QED BY <1>7, <1>8, <2>1
<1> QED BY <1>9 DEF n, e

-----------------------------------------------------------------------------
(* What programs mean.                                                     *)
Environments == UNION {[D -> Word] : D \in SUBSET Name}
MeaningSet == [known : BOOLEAN, env : Environments, drawn : Seq(Name \X Seq(Word)), out : Seq(Messages)]

(* Expressions denote words.                                               *)
LEMMA DenotesWord ==
  ASSUME NEW env \in Environments, NEW e \in Expression
  PROVE  Denotes(env, e) \in Word
<1>1. PICK D \in SUBSET Name : env \in [D -> Word]
  BY DEF Environments
<1>2. 0 \in Word
  BY SymbolsAssumption
<1>3. CASE IsVar(e)
  BY <1>1, <1>2, <1>3 DEF Denotes
<1>4. CASE ~IsVar(e)
  BY <1>4, ExprShape DEF Denotes
<1> QED BY <1>3, <1>4

(* The environment an assignment leaves.                                   *)
Assigned(env, n, v) ==
  IF HasRoom(env, n) THEN [x \in DOMAIN env \cup {n} |-> IF x = n THEN v ELSE env[x]] ELSE env

(* An assignment leaves an environment.                                    *)
LEMMA AssignedIs ==
  ASSUME NEW env \in Environments, NEW n \in Name, NEW v \in Word
  PROVE  Assigned(env, n, v) \in Environments
<1>1. PICK D \in SUBSET Name : env \in [D -> Word]
  BY DEF Environments
<1>2. [x \in DOMAIN env \cup {n} |-> IF x = n THEN v ELSE env[x]] \in [D \cup {n} -> Word]
  BY <1>1
<1>3. D \cup {n} \in SUBSET Name
  BY <1>1
<1> DEFINE f == [x \in DOMAIN env \cup {n} |-> IF x = n THEN v ELSE env[x]]
<1> HIDE DEF f
<1>4. f \in Environments
  BY <1>2, <1>3 DEF Environments, f
<1> QED BY <1>4 DEF Assigned, f

(* What a statement means, field by field.                                 *)
LEMMA ExecutedSet ==
  ASSUME NEW m \in MeaningSet, NEW s \in Statement, IsSet(s)
  PROVE  /\ Executed(m, s) \in MeaningSet
         /\ Executed(m, s).known = m.known
         /\ Executed(m, s).env = Assigned(m.env, s.set, Denotes(m.env, s.to))
         /\ Executed(m, s).drawn = m.drawn
         /\ Executed(m, s).out = Append(m.out, "assigned")
<1> DEFINE v == Denotes(m.env, s.to)
           E == Assigned(m.env, s.set, v)
           o == Append(m.out, "assigned")
           r == Executed(m, s)
<1>1. s.set \in Name /\ s.to \in Expression
  BY StatementShape, NameIsText
<1>2. m.env \in Environments /\ m.out \in Seq(Messages)
  BY DEF MeaningSet
<1>3. v \in Word
  BY <1>1, <1>2, DenotesWord
<1> HIDE DEF v
<1>4. E \in Environments
  BY <1>1, <1>2, <1>3, AssignedIs
<1>5. o \in Seq(Messages)
  BY <1>2 DEF Messages
<1>6. r = [m EXCEPT !.env = E, !.out = o]
  BY Zenon DEF Executed, Assigned, v
<1> HIDE DEF E, o, r
<1>7. r \in MeaningSet /\ r.known = m.known /\ r.env = E /\ r.drawn = m.drawn /\ r.out = o
  <2>1. ASSUME NEW R, NEW D, NEW O, NEW y \in [known : BOOLEAN, env : R, drawn : D, out : O],
               NEW a \in R, NEW b \in O
        PROVE  /\ [y EXCEPT !.env = a, !.out = b] \in [known : BOOLEAN, env : R, drawn : D, out : O]
               /\ [y EXCEPT !.env = a, !.out = b].known = y.known
               /\ [y EXCEPT !.env = a, !.out = b].env = a
               /\ [y EXCEPT !.env = a, !.out = b].drawn = y.drawn
               /\ [y EXCEPT !.env = a, !.out = b].out = b
    OBVIOUS
  <2>2. m \in [known : BOOLEAN, env : Environments, drawn : Seq(Name \X Seq(Word)), out : Seq(Messages)]
    BY DEF MeaningSet
  <2> QED BY <1>4, <1>5, <1>6, <2>1, <2>2, Zenon DEF MeaningSet
<1> QED BY <1>7 DEF E, o, r, v

(* The first r of the arguments es.                                        *)
FirstArgs(env, es, r) == [i \in 1 .. r |-> Denotes(env, es[i])]
GivenArgs(env, s) == FirstArgs(env, s.with, Arity[s.call])

LEMMA ExecutedCall ==
  ASSUME NEW m \in MeaningSet, NEW s \in Statement, ~IsSet(s)
  PROVE  /\ Executed(m, s) \in MeaningSet
         /\ Executed(m, s).known = m.known
         /\ Executed(m, s).env = m.env
         /\ Executed(m, s).drawn = IF Understood(s) THEN Append(m.drawn, <<s.call, GivenArgs(m.env, s)>>) ELSE m.drawn
         /\ Executed(m, s).out = IF Understood(s) THEN Append(m.out, "executed") ELSE Append(m.out, "unknown")
<1> DEFINE a == GivenArgs(m.env, s)
           d == Append(m.drawn, <<s.call, a>>)
           o == Append(m.out, "executed")
           u == Append(m.out, "unknown")
           r == Executed(m, s)
<1>1. s.call \in Name /\ s.with \in Seq(Expression)
  BY StatementShape, NameIsText
<1>2. m.env \in Environments /\ m.out \in Seq(Messages) /\ m.drawn \in Seq(Name \X Seq(Word))
  BY DEF MeaningSet
<1>3. o \in Seq(Messages) /\ u \in Seq(Messages)
  BY <1>2 DEF Messages
<1> HIDE DEF o, u, r
<1>4. m \in [known : BOOLEAN, env : Environments, drawn : Seq(Name \X Seq(Word)), out : Seq(Messages)]
  BY DEF MeaningSet
<1>5. CASE Understood(s)
  <2>1. s.call \in DOMAIN Arity /\ Len(s.with) >= Arity[s.call] /\ Arity[s.call] \in 0 .. 8
    BY <1>5, ArityAssumption DEF Understood
  <2>2. \A i \in 1 .. Arity[s.call] : Denotes(m.env, s.with[i]) \in Word
    <3> TAKE i \in 1 .. Arity[s.call]
    <3>1. s.with[i] \in Expression
      BY <1>1, <2>1
    <3> QED BY <1>2, <3>1, DenotesWord
  <2>3. a \in Seq(Word)
    BY <2>1, <2>2 DEF GivenArgs, FirstArgs
  <2>4. d \in Seq(Name \X Seq(Word))
    <3> DEFINE c == <<s.call, a>>
               S == Name \X Seq(Word)
    <3>1. c \in S
      BY <1>1, <2>3
    <3> HIDE DEF c, S
    <3>2. Append(m.drawn, c) \in Seq(S)
      BY <1>2, <3>1 DEF S
    <3> QED BY <3>2 DEF c, S
  <2>5. r = [m EXCEPT !.drawn = d, !.out = o]
    BY <1>5, Zenon DEF Executed, r, o, GivenArgs, FirstArgs
  <2> HIDE DEF d
  <2>6. ASSUME NEW R, NEW D, NEW O, NEW y \in [known : BOOLEAN, env : R, drawn : D, out : O],
               NEW b \in D, NEW c \in O
        PROVE  /\ [y EXCEPT !.drawn = b, !.out = c] \in [known : BOOLEAN, env : R, drawn : D, out : O]
               /\ [y EXCEPT !.drawn = b, !.out = c].known = y.known
               /\ [y EXCEPT !.drawn = b, !.out = c].env = y.env
               /\ [y EXCEPT !.drawn = b, !.out = c].drawn = b
               /\ [y EXCEPT !.drawn = b, !.out = c].out = c
    OBVIOUS
  <2>7. r \in MeaningSet /\ r.known = m.known /\ r.env = m.env /\ r.drawn = d /\ r.out = o
    BY <1>3, <1>4, <2>4, <2>5, <2>6, Zenon DEF MeaningSet
  <2> QED BY <1>5, <2>7 DEF d, o, r
<1>6. CASE ~Understood(s)
  <2>1. r = [m EXCEPT !.out = u]
    BY <1>6, Zenon DEF Executed, r, u
  <2>2. ASSUME NEW R, NEW D, NEW O, NEW y \in [known : BOOLEAN, env : R, drawn : D, out : O],
               NEW c \in O
        PROVE  /\ [y EXCEPT !.out = c] \in [known : BOOLEAN, env : R, drawn : D, out : O]
               /\ [y EXCEPT !.out = c].known = y.known
               /\ [y EXCEPT !.out = c].env = y.env
               /\ [y EXCEPT !.out = c].drawn = y.drawn
               /\ [y EXCEPT !.out = c].out = c
    OBVIOUS
  <2>3. r \in MeaningSet /\ r.known = m.known /\ r.env = m.env /\ r.drawn = m.drawn /\ r.out = u
    BY <1>3, <1>4, <2>1, <2>2, Zenon DEF MeaningSet
  <2> QED BY <1>6, <2>3 DEF u, r
<1> QED BY <1>5, <1>6

(* The meaning of a program, one statement after the other.                *)
LEMMA MeaningUnfolds ==
  ASSUME NEW m \in MeaningSet, NEW p \in Seq(Statement)
  PROVE  /\ \A n \in 0 .. Len(p) : MeaningTo(m, p)[n] \in MeaningSet
         /\ MeaningTo(m, p)[0] = m
         /\ \A n \in 1 .. Len(p) : MeaningTo(m, p)[n] = Executed(MeaningTo(m, p)[n - 1], p[n])
         /\ \A n \in 0 .. Len(p) : MeaningTo(m, p)[n].known = m.known
<1> DEFINE N == Len(p)
           step == [q \in MeaningSet \X (1 .. N) |-> Executed(q[1], p[q[2]])]
<1>1. N \in Nat
  OBVIOUS
<1>2. \A x \in MeaningSet, n \in 1 .. N : Executed(x, p[n]) \in MeaningSet /\ Executed(x, p[n]).known = x.known
  <2> TAKE x \in MeaningSet, n \in 1 .. N
  <2>1. p[n] \in Statement
    OBVIOUS
  <2> QED BY <2>1, ExecutedSet, ExecutedCall
<1> HIDE DEF N
<1>3. step \in Steps(MeaningSet, N)
  <2>1. \A q \in MeaningSet \X (1 .. N) : Executed(q[1], p[q[2]]) \in MeaningSet
    BY <1>2
  <2> QED BY <2>1, Zenon DEF Steps
<1>4. \A x \in MeaningSet, n \in 1 .. N : step[<<x, n>>] = Executed(x, p[n])
  OBVIOUS
<1> HIDE DEF step
<1>5. Loop(MeaningSet, m, N, step)
  BY <1>1, <1>3, Recursion
<1> DEFINE Body(f, n) == IF n = 0 THEN m ELSE Executed(f[n - 1], p[n])
<1>6. \E f : f = [n \in 0 .. N |-> Body(f, n)]
  <2>1. PICK f \in [0 .. N -> MeaningSet] : f[0] = m /\ \A n \in 1 .. N : f[n] = step[<<f[n - 1], n>>]
    BY <1>5, Zenon DEF Loop
  <2>2. ASSUME NEW n \in 0 .. N
        PROVE  f[n] = Body(f, n)
    <3>1. CASE n = 0
      BY <3>1, <2>1
    <3>2. CASE n # 0
      <4>1. n \in 1 .. N /\ n - 1 \in 0 .. N
        BY <1>1, <3>2
      <4>2. f[n - 1] \in MeaningSet /\ f[n] = step[<<f[n - 1], n>>]
        BY <2>1, <4>1
      <4> QED BY <1>4, <3>2, <4>1, <4>2, Zenon
    <3> QED BY <3>1, <3>2
  <2>3. f = [n \in 0 .. N |-> f[n]]
    BY <2>1, Zenon
  <2> QED BY <2>2, <2>3, Zenon
<1> DEFINE h == CHOOSE f : f = [n \in 0 .. N |-> Body(f, n)]
<1>7. h = [n \in 0 .. N |-> Body(h, n)]
  BY <1>6, Zenon
<1>8. MeaningTo(m, p) = h
  BY Zenon DEF MeaningTo, N
<1> HIDE DEF h
<1>9. \A n \in 0 .. N : h[n] = Body(h, n)
  BY <1>7, Zenon
<1>10. h[0] = m /\ \A n \in 1 .. N : h[n] = Executed(h[n - 1], p[n])
  <2>1. 0 \in 0 .. N /\ \A n \in 1 .. N : n \in 0 .. N /\ n # 0
    BY <1>1
  <2> QED BY <1>9, <2>1, Zenon
<1> DEFINE T == {n \in 0 .. N : h[n] \in MeaningSet /\ h[n].known = m.known}
<1>11. 0 \in T
  BY <1>1, <1>10
<1>12. ASSUME NEW n \in 1 .. N, n - 1 \in T
       PROVE  n \in T
  <2>1. n \in 0 .. N /\ h[n] = Executed(h[n - 1], p[n]) /\ h[n - 1] \in MeaningSet
      /\ h[n - 1].known = m.known
    BY <1>1, <1>10, <1>12
  <2> QED BY <1>2, <2>1
<1> HIDE DEF T
<1>13. \A n \in 0 .. N : n \in T
  BY <1>1, <1>11, <1>12, HandedOn
<1> QED BY <1>8, <1>10, <1>13 DEF N, T

-----------------------------------------------------------------------------
(* Programs in the text they are written as.                               *)
LEMMA StatementIsText ==
  ASSUME NEW s \in Statement, NEW gap \in Seq(Blank)
  PROVE  StatementText(s, gap) \in Text
<1>1. /\ "(" \in DOMAIN Punctuation /\ ")" \in DOMAIN Punctuation
      /\ "=" \in DOMAIN Punctuation /\ ";" \in DOMAIN Punctuation
  BY DEF Punctuation
<1>2. <<"(">> \in Text /\ <<")">> \in Text /\ <<"=">> \in Text /\ <<";">> \in Text /\ gap \in Text
  BY <1>1, MarkIsText, GapIsText
<1>3. \A u, v \in Text : u \o v \in Text
  BY Joined
<1>4. CASE IsSet(s)
  <2>1. s.set \in Text /\ ExprText(s.to) \in Text
    BY <1>4, StatementShape, NameIsText, ExprShape
  <2>2. s.set \o gap \o <<"=">> \o gap \o ExprText(s.to) \o <<";">> \o gap \in Text
    BY <1>2, <1>3, <2>1, Zenon
  <2> QED BY <1>4, <2>2, Zenon DEF StatementText
<1>5. CASE ~IsSet(s)
  <2>1. s.call \in Text /\ ListText(s.with, gap) \in Text
    BY <1>5, StatementShape, NameIsText, ListWritten
  <2>2. s.call \o <<"(">> \o gap \o ListText(s.with, gap) \o <<")">> \o gap \o <<";">> \in Text
    BY <1>2, <1>3, <2>1, Zenon
  <2> QED BY <1>5, <2>2, Zenon DEF StatementText
<1> QED BY <1>4, <1>5

(* Where the interpreter is when n statements are behind it.               *)
Place(p, gap, n) == Len(TextTo(p, gap)[n]) + 1

(* Each statement stands where the texts of those before it end.           *)
LEMMA ProgramStands ==
  ASSUME NEW p \in Seq(Statement), NEW gap \in Seq(Blank)
  PROVE  /\ ProgramText(p, gap) \in Text
         /\ lexer_next(ProgramText(p, gap), 1) = lexer_next(ProgramText(p, gap), Place(p, gap, 0))
         /\ Place(p, gap, Len(p)) = Len(ProgramText(p, gap)) + 1
         /\ \A n \in 1 .. Len(p) :
              /\ Stands(ProgramText(p, gap), Place(p, gap, n - 1), StatementText(p[n], gap))
              /\ Place(p, gap, n) = Place(p, gap, n - 1) + Len(StatementText(p[n], gap))
<1> DEFINE N == Len(p)
           piece == [n \in 1 .. N |-> StatementText(p[n], gap)]
           f == TextTo(p, gap)
           src == ProgramText(p, gap)
<1>1. N \in Nat /\ gap \in Text
  BY GapIsText
<1>2. \A n \in 1 .. N : piece[n] = StatementText(p[n], gap) /\ StatementText(p[n], gap) \in Text
  <2> TAKE n \in 1 .. N
  <2>1. p[n] \in Statement
    OBVIOUS
  <2> QED BY <2>1, StatementIsText
<1>3. piece \in [1 .. N -> Text]
  BY <1>2
<1>4. f = Spelled(gap, piece)
  BY Zenon DEF TextTo
<1>5. src = f[N]
  BY DEF ProgramText
<1> HIDE DEF piece, N, f, src
<1>6. piece \in Seq(Text) /\ Len(piece) = N
  BY <1>1, <1>3
<1>7. Written(f, gap, piece, N)
  BY <1>1, <1>4, <1>6, SpelledWritten
<1>8. /\ f \in [0 .. N -> Text] /\ f[0] = gap /\ N \in 0 .. N /\ 0 \in 0 .. N
      /\ \A n \in 1 .. N : f[n] = f[n - 1] \o piece[n]
  BY <1>1, <1>7 DEF Written
<1>9. src \in Text /\ Place(p, gap, N) = Len(src) + 1
  BY <1>5, <1>8 DEF Place, f
<1>10. lexer_next(src, 1) = lexer_next(src, Place(p, gap, 0))
  <2>1. Stands(src, 1, gap)
    BY <1>1, <1>3, <1>5, <1>7, FirstStands
  <2>2. lexer_next(src, 1) = lexer_next(src, 1 + Len(gap))
    BY <1>9, <2>1, BlanksSkipped
  <2>3. Place(p, gap, 0) = 1 + Len(gap)
    BY <1>1, <1>8 DEF Place, f, Text
  <2> QED BY <2>2, <2>3
<1>11. ASSUME NEW n \in 1 .. N
       PROVE  /\ Stands(src, Place(p, gap, n - 1), StatementText(p[n], gap))
              /\ Place(p, gap, n) = Place(p, gap, n - 1) + Len(StatementText(p[n], gap))
  <2>1. \A m \in 1 .. N : Stands(f[N], Len(f[m - 1]) + 1, piece[m])
    BY <1>1, <1>3, <1>7, PiecesStand
  <2>2. Stands(src, Place(p, gap, n - 1), StatementText(p[n], gap))
    BY <1>2, <1>5, <2>1 DEF Place, f
  <2> DEFINE w == StatementText(p[n], gap)
             k == Len(f[n - 1])
  <2>3. f[n - 1] \in Text /\ w \in Text /\ f[n] = f[n - 1] \o w
    <3>1. n - 1 \in 0 .. N
      BY <1>1
    <3> QED BY <1>2, <1>8, <3>1
  <2> HIDE DEF w
  <2>4. Len(f[n]) = k + Len(w) /\ k \in Nat
    BY <2>3, Joined
  <2>5. Len(w) \in Nat
    BY <2>3 DEF Text
  <2> HIDE DEF k
  <2>6. Len(f[n]) + 1 = (k + 1) + Len(w)
    BY <2>4, <2>5
  <2>7. Place(p, gap, n) = Place(p, gap, n - 1) + Len(w)
    BY <2>6, Zenon DEF Place, f, k
  <2> QED BY <2>2, <2>7 DEF w
<1> QED BY <1>9, <1>10, <1>11 DEF N, src

-----------------------------------------------------------------------------
(* The run of a program.                                                   *)

(* What the machine has done so far is what m says.                        *)
Holds(m) == Env = m.env /\ drawn = m.drawn /\ out = m.out

(* The arguments kept of the first k: the first eight of them.             *)
Kept(k) == IF k <= MaxArgs THEN k ELSE MaxArgs
ArgList(env, es, k) == [i \in 1 .. Kept(k) |-> Denotes(env, es[i])]

(* The program the machine is in: what was meant before it, and how it is  *)
(* written.                                                                *)
InProgram(p, gap, m) ==
  /\ p \in Seq(Statement) /\ gap \in Seq(Blank) /\ m \in MeaningSet
  /\ script = ProgramText(p, gap)
  /\ meant = Meaning(m, p)

(* At the head of the main loop behind n statements; in the argument loop  *)
(* of statement n, behind k arguments.                                     *)
AtTop(p, gap, m, n) ==
  /\ n \in 0 .. Len(p)
  /\ pc = "top"
  /\ tok = lexer_next(script, Place(p, gap, n))
  /\ Holds(MeaningTo(m, p)[n])
InCall(p, gap, m, n, k) ==
  /\ n \in 1 .. Len(p) /\ ~IsSet(p[n]) /\ k \in 0 .. Len(p[n].with)
  /\ pc = "args"
  /\ name_tok = p[n].call
  /\ args = ArgList(MeaningTo(m, p)[n - 1].env, p[n].with, k)
  /\ tok = lexer_next(script, ArgPlace(p[n].with, gap, ListPlace(Place(p, gap, n - 1), p[n], gap), k))
  /\ Holds(MeaningTo(m, p)[n - 1])

InRun ==
  \E p, gap, m : /\ InProgram(p, gap, m)
                 /\ \/ \E n : AtTop(p, gap, m, n)
                    \/ \E n, k : InCall(p, gap, m, n, k)

(* The inductive invariant: between scripts the machine has done what is   *)
(* meant; in a program it has done what the statements behind it mean.     *)
ProgInv ==
  /\ meant \in MeaningSet
  /\ meant.known => SymbolsInv /\ (IF pc = "idle" THEN Holds(meant) ELSE InRun)

(* The table as a map is an environment, and an assignment to a name does  *)
(* to it what the meaning of the assignment says (builtins.c:31-56).       *)
LEMMA EnvIs == SymbolsInv => Env \in Environments
<1> SUFFICES ASSUME SymbolsInv PROVE Env \in Environments
  OBVIOUS
<1>1. Env \in [Defined -> Word]
  BY GetsWord DEF Env
<1>2. Defined \in SUBSET Name
  BY DEF Defined
<1> QED BY <1>1, <1>2 DEF Environments

(* An assignment to the table assigns in the environment it stands for.    *)
LEMMA EnvAssigned ==
  ASSUME SymbolsInv, NEW n \in Identifier, NEW v \in Word, symbol_set(n, v)
  PROVE  SymbolsInv' /\ Env' = Assigned(Env, n, v)
<1>1. n \in Name /\ n \in Text /\ n # << >>
  BY NameIsText DEF Identifier
<1>2. SymbolsInv'
  BY <1>1, SetInv
<1>3. DOMAIN Env = Defined /\ \A x \in Defined : Env[x] = symbol_get(x)
  BY DEF Env
<1>4. CanSet(n) <=> HasRoom(Env, n)
  <2>1. Accepts(n) <=> Len(n) < SERPENTC_MAX_NAME
    <3>1. Len(n) \in Nat /\ Len(n) # 0
      BY <1>1 DEF Text
    <3> DEFINE k == Len(n)
    <3> HIDE DEF k
    <3>2. k \in 1 .. SERPENTC_MAX_NAME - 1 <=> k < SERPENTC_MAX_NAME
      BY <3>1, SymbolsAssumption DEF k
    <3> QED BY <3>2 DEF k, Accepts
  <2>2. n \in Defined <=> Accepts(n) /\ Holding(n) # {}
    BY <1>1 DEF Defined, Found
  <2>3. Free # {} <=> Cardinality(Defined) < SERPENTC_MAX_VARS
    BY DefinedCount
  <2>4. HasRoom(Env, n) <=> Len(n) < SERPENTC_MAX_NAME /\ (n \in Defined \/ Cardinality(Defined) < SERPENTC_MAX_VARS)
    BY <1>3, Zenon DEF HasRoom
  <2> QED BY <2>1, <2>2, <2>3, <2>4, Zenon DEF CanSet
<1>5. CASE ~CanSet(n)
  <2>1. symbols' = symbols
    BY <1>5 DEF symbol_set
  <2>2. Env' = Env
    BY <2>1 DEF Env, Defined, Found, Holding, symbol_get
  <2> QED BY <1>2, <1>4, <1>5, <2>2 DEF Assigned
<1>6. CASE CanSet(n)
  <2>1. /\ Defined' = Defined \cup {n}
        /\ \A x \in Defined \cup {n} : symbol_get(x)' = IF x = n THEN v ELSE symbol_get(x)
    BY <1>1, <1>2, <1>6, SetChangesOne
  <2>2. Env' = [x \in Defined \cup {n} |-> IF x = n THEN v ELSE Env[x]]
    <3>1. \A x \in Defined \cup {n} : symbol_get(x)' = IF x = n THEN v ELSE Env[x]
      BY <1>3, <2>1
    <3> QED BY <2>1, <3>1 DEF Env
  <2> QED BY <1>2, <1>3, <1>4, <1>6, <2>2 DEF Assigned
<1> QED BY <1>5, <1>6

LEMMA EnvSame == symbols' = symbols => Env' = Env /\ (SymbolsInv => SymbolsInv')
BY DEF Env, Defined, Found, Holding, symbol_get, SymbolsInv, SymbolsTypeOK, OneSlotEach, NamesFit

(* What is known of the text of the program.                               *)
LEMMA RunsText ==
  ASSUME NEW p, NEW gap, NEW m, InProgram(p, gap, m)
  PROVE  /\ p \in Seq(Statement) /\ gap \in Seq(Blank) /\ m \in MeaningSet
         /\ script \in Text
         /\ lexer_next(script, 1) = lexer_next(script, Place(p, gap, 0))
         /\ Place(p, gap, Len(p)) = Len(script) + 1
         /\ \A n \in 1 .. Len(p) :
              /\ p[n] \in Statement
              /\ Stands(script, Place(p, gap, n - 1), StatementText(p[n], gap))
              /\ Place(p, gap, n) = Place(p, gap, n - 1) + Len(StatementText(p[n], gap))
         /\ Len(p) \in Nat
<1>1. p \in Seq(Statement) /\ gap \in Seq(Blank) /\ m \in MeaningSet /\ script = ProgramText(p, gap)
  BY DEF InProgram
<1>2. Len(p) \in Nat /\ \A n \in 1 .. Len(p) : p[n] \in Statement
  BY <1>1
<1> QED BY <1>1, <1>2, ProgramStands

(* A turn at the head of the main loop in front of an assignment carries   *)
(* it out (serpentc.c:42-50).                                              *)
LEMMA TopSet ==
  ASSUME SymbolsInv, NEW p, NEW gap, NEW m, InProgram(p, gap, m), NEW n \in 1 .. Len(p), IsSet(p[n]),
         AtTop(p, gap, m, n - 1), EvalStep
  PROVE  SymbolsInv' /\ AtTop(p, gap, m, n)' /\ UNCHANGED script
<1> DEFINE s == p[n]
           c == Place(p, gap, n - 1)
           M == MeaningTo(m, p)[n - 1]
           sign == lexer_next(script, tok.next)
           e == lexer_next(script, sign.next)
           z == lexer_next(script, e.next)
<1>1. /\ script \in Text /\ gap \in Seq(Blank) /\ s \in Statement /\ Len(p) \in Nat
      /\ Stands(script, c, StatementText(s, gap))
      /\ Place(p, gap, n) = c + Len(StatementText(s, gap))
      /\ p \in Seq(Statement) /\ m \in MeaningSet
  BY RunsText
<1>2. pc = "top" /\ tok = lexer_next(script, c) /\ Holds(M)
  BY DEF AtTop
<1>3. M \in MeaningSet /\ MeaningTo(m, p)[n] = Executed(M, s)
  <2>1. n - 1 \in 0 .. Len(p)
    BY <1>1
  <2> QED BY <1>1, <2>1, MeaningUnfolds
<1> HIDE DEF s, c, M
<1>4. /\ tok.type = "IDENTIFIER" /\ tok.text = s.set
      /\ sign.type = "ASSIGN"
      /\ e.type \in {"NUMBER", "IDENTIFIER"} /\ Value(e) = Denotes(Env, s.to)
      /\ z.type = "SEMICOLON"
      /\ lexer_next(script, z.next) = lexer_next(script, Place(p, gap, n))
  <2>1. IsSet(s)
    BY DEF s
  <2> HIDE DEF sign, e, z
  <2> QED BY <1>1, <1>2, <2>1, SetRead DEF sign, e, z
<1>5. Next1(tok) = sign /\ Next1(sign) = e /\ Next1(e) = z /\ Next1(z) = lexer_next(script, z.next)
  BY DEF Next1
<1> HIDE DEF sign, e, z
<1>6. /\ symbol_set(s.set, Denotes(Env, s.to))
      /\ tok' = lexer_next(script, Place(p, gap, n))
      /\ out' = Append(out, "assigned")
      /\ UNCHANGED <<script, pc, drawn>>
  <2>1. Assignment
    <3>1. ~Call
      BY <1>4, <1>5 DEF Call, Is
    <3>2. ~Argument /\ ~Dispatch
      BY <1>2 DEF Argument, InList, Dispatch
    <3>3. ~Skip
      BY <1>4, <1>5 DEF Skip, Is
    <3>4. ~Return
      BY <1>4 DEF Return, Running
    <3> QED BY <3>1, <3>2, <3>3, <3>4 DEF EvalStep
  <2>2. After(e) = z
    BY <1>4, <1>5 DEF After
  <2>3. Past(z, "SEMICOLON") = lexer_next(script, z.next)
    BY <1>4, <1>5 DEF Past, Is
  <2>4. /\ symbol_set(tok.text, Value(e)) /\ tok' = Past(After(e), "SEMICOLON")
        /\ out' = Append(out, "assigned")
        /\ UNCHANGED <<script, pc, drawn>>
    BY <2>1, <1>5 DEF Assignment
  <2> QED BY <1>4, <2>2, <2>3, <2>4
<1>7. s.set \in Identifier /\ s.to \in Expression
  <2>1. IsSet(s)
    BY DEF s
  <2> QED BY <1>1, <2>1, StatementShape
<1>8. Env = M.env /\ drawn = M.drawn /\ out = M.out
  BY <1>2 DEF Holds
<1>9. SymbolsInv' /\ Env' = Assigned(Env, s.set, Denotes(Env, s.to))
  <2>1. Denotes(Env, s.to) \in Word
    BY <1>7, EnvIs, DenotesWord
  <2> QED BY <1>6, <1>7, <2>1, EnvAssigned
<1> DEFINE X == MeaningTo(m, p)[n]
<1>10. X.env = Assigned(M.env, s.set, Denotes(M.env, s.to)) /\ X.drawn = M.drawn /\ X.out = Append(M.out, "assigned")
  <2>1. IsSet(s)
    BY DEF s
  <2> QED BY <1>1, <1>3, <2>1, ExecutedSet
<1> HIDE DEF X
<1>11. Env' = X.env /\ drawn' = X.drawn /\ out' = X.out
  BY <1>6, <1>8, <1>9, <1>10
<1>12. n \in 0 .. Len(p) /\ pc' = "top" /\ tok' = lexer_next(script', Place(p, gap, n))
  BY <1>1, <1>2, <1>6
<1> QED BY <1>6, <1>9, <1>11, <1>12 DEF AtTop, Holds, X

(* In front of a call it enters the argument loop (serpentc.c:52-58).      *)
LEMMA TopCall ==
  ASSUME SymbolsInv, NEW p, NEW gap, NEW m, InProgram(p, gap, m), NEW n \in 1 .. Len(p), ~IsSet(p[n]),
         AtTop(p, gap, m, n - 1), EvalStep
  PROVE  SymbolsInv' /\ InCall(p, gap, m, n, 0)' /\ UNCHANGED script
<1> DEFINE s == p[n]
           c == Place(p, gap, n - 1)
           M == MeaningTo(m, p)[n - 1]
           paren == lexer_next(script, tok.next)
           l == ListPlace(c, s, gap)
           x == ListText(s.with, gap)
           close == lexer_next(script, l + Len(x))
           z == lexer_next(script, close.next)
<1>1. /\ script \in Text /\ gap \in Seq(Blank) /\ s \in Statement
      /\ Stands(script, c, StatementText(s, gap))
  BY RunsText
<1>2. pc = "top" /\ tok = lexer_next(script, c) /\ Holds(M)
  BY DEF AtTop
<1>3. ~IsSet(s)
  OBVIOUS
<1> HIDE DEF s, c, M
<1>4. /\ tok.type = "IDENTIFIER" /\ tok.text = s.call
      /\ paren.type = "LPAREN"
      /\ lexer_next(script, paren.next) = lexer_next(script, l)
  <2> HIDE DEF paren, l, x, close, z
  <2> QED BY <1>1, <1>2, <1>3, CallRead DEF paren, l, x, close, z
<1>5. Next1(tok) = paren /\ Next1(paren) = lexer_next(script, l)
  BY <1>4 DEF Next1
<1> HIDE DEF paren, l
<1>6. Call
  <2>1. ~Assignment
    BY <1>4, <1>5 DEF Assignment, Is
  <2>2. ~Argument /\ ~Dispatch
    BY <1>2 DEF Argument, InList, Dispatch
  <2>3. ~Skip
    BY <1>4, <1>5 DEF Skip, Is
  <2>4. ~Return
    BY <1>4 DEF Return, Running
  <2> QED BY <2>1, <2>2, <2>3, <2>4 DEF EvalStep
<1>7. /\ pc' = "args" /\ name_tok' = s.call /\ args' = << >> /\ tok' = lexer_next(script, l)
      /\ UNCHANGED <<script, symbols, out, drawn>>
  BY <1>4, <1>5, <1>6 DEF Call
<1>8. s.with \in Seq(Expression)
  BY <1>1, <1>3, StatementShape
<1>9. 0 \in 0 .. Len(s.with) /\ n \in 1 .. Len(p) /\ ~IsSet(s)
  BY <1>3, <1>8
<1>10. args' = ArgList(M.env, s.with, 0)
  <2>1. Kept(0) = 0
    BY DEF Kept, MaxArgs
  <2>2. ArgList(M.env, s.with, 0) = << >>
    BY <2>1 DEF ArgList
  <2> QED BY <1>7, <2>2
<1>11. ArgPlace(s.with, gap, l, 0) = l
  <2> DEFINE es == s.with
  <2>1. es \in Seq(Expression)
    BY <1>8
  <2> HIDE DEF es
  <2>2. ListTo(es, gap)[0] = << >>
    BY <1>1, <2>1, ListWritten DEF Written
  <2>3. ~(0 \in 1 .. Len(es) - 1) /\ Len(<< >>) = 0
    BY <2>1
  <2>4. ArgPlace(es, gap, l, 0) = l + Len(<< >>)
    BY <2>2, <2>3 DEF ArgPlace
  <2>5. l \in Nat
    <3>1. Stands(script, l, x)
      <4> HIDE DEF x, close, z
      <4> QED BY <1>1, <1>2, <1>3, CallRead DEF paren, l, x, close, z
    <3> QED BY <3>1 DEF Stands
  <2> QED BY <2>3, <2>4, <2>5 DEF es
<1>12. Holds(M)' /\ SymbolsInv'
  <2>1. Env' = Env /\ SymbolsInv'
    BY <1>7, EnvSame
  <2> QED BY <1>2, <1>7, <2>1 DEF Holds, M
<1>13. tok' = lexer_next(script', ArgPlace(s.with, gap, l, 0))
  BY <1>7, <1>11
<1> QED BY <1>7, <1>9, <1>10, <1>12, <1>13, Zenon DEF InCall, s, M, l, c

(* An argument is taken with its value; those behind the eighth are        *)
(* dropped (serpentc.c:58-69).                                             *)
LEMMA ArgStep ==
  ASSUME SymbolsInv, NEW p, NEW gap, NEW m, InProgram(p, gap, m), NEW n, NEW k,
         InCall(p, gap, m, n, k), k < Len(p[n].with), EvalStep
  PROVE  SymbolsInv' /\ InCall(p, gap, m, n, k + 1)' /\ UNCHANGED script
<1> DEFINE s == p[n]
           c == Place(p, gap, n - 1)
           M == MeaningTo(m, p)[n - 1]
           l == ListPlace(c, s, gap)
           es == s.with
           x == ListText(es, gap)
           t1 == lexer_next(script, c)
           paren == lexer_next(script, t1.next)
           close == lexer_next(script, l + Len(x))
           z == lexer_next(script, close.next)
           a == lexer_next(script, tok.next)
<1>1. /\ n \in 1 .. Len(p) /\ ~IsSet(s) /\ k \in 0 .. Len(es)
      /\ pc = "args" /\ name_tok = s.call
      /\ args = ArgList(M.env, es, k)
      /\ tok = lexer_next(script, ArgPlace(es, gap, l, k))
      /\ Holds(M)
  BY DEF InCall
<1>2. /\ script \in Text /\ gap \in Seq(Blank) /\ s \in Statement
      /\ Stands(script, c, StatementText(s, gap))
  BY <1>1, RunsText
<1>3. k < Len(es)
  OBVIOUS
<1> HIDE DEF s, c, M
<1>4. es \in Seq(Expression)
  BY <1>1, <1>2, StatementShape
<1>5. Stands(script, l, x) /\ Stands(script, l + Len(x), <<")">>)
  <2> HIDE DEF paren, l, x, close, z, t1
  <2> QED BY <1>1, <1>2, CallRead DEF paren, l, x, close, z, t1
<1>6. k \in 0 .. Len(es) - 1 /\ Len(es) \in Nat /\ k \in Nat /\ k + 1 \in 0 .. Len(es) /\ k + 1 \in 1 .. Len(es)
  BY <1>1, <1>3, <1>4
<1> HIDE DEF es, l, a
<1>7. /\ tok.type \in {"NUMBER", "IDENTIFIER"}
      /\ Value(tok) = Denotes(Env, es[k + 1])
      /\ k + 1 < Len(es) => /\ a.type = "COMMA"
                            /\ lexer_next(script, a.next) = lexer_next(script, ArgPlace(es, gap, l, k + 1))
      /\ k + 1 = Len(es) => a.type = "RPAREN" /\ a = lexer_next(script, ArgPlace(es, gap, l, k + 1))
  BY <1>1, <1>2, <1>4, <1>5, <1>6, ArgRead DEF a
<1>8. Argument
  <2>1. ~Assignment /\ ~Call /\ ~Skip /\ ~Return
    BY <1>1 DEF Assignment, Call, Skip, Return
  <2>2. ~Dispatch
    BY <1>1, <1>7 DEF Dispatch, InList
  <2> QED BY <2>1, <2>2 DEF EvalStep
<1>9. After(tok) = a
  BY <1>7 DEF After, Next1, a
<1>10. /\ args' = IF Len(args) < MaxArgs THEN Append(args, Value(tok)) ELSE args
       /\ tok' = Past(a, "COMMA")
       /\ pc' = IF a.type \in {"COMMA", "RPAREN"} THEN "args" ELSE "dispatch"
       /\ UNCHANGED <<script, symbols, name_tok, out, drawn>>
  BY <1>8, <1>9 DEF Argument
<1>11. tok' = lexer_next(script, ArgPlace(es, gap, l, k + 1)) /\ pc' = "args"
  <2>1. CASE k + 1 < Len(es)
    <3>1. a.type = "COMMA" /\ Next1(a) = lexer_next(script, ArgPlace(es, gap, l, k + 1))
      BY <1>7, <2>1 DEF Next1
    <3> QED BY <1>10, <3>1 DEF Past, Is
  <2>2. CASE k + 1 = Len(es)
    <3>1. a.type = "RPAREN" /\ a = lexer_next(script, ArgPlace(es, gap, l, k + 1))
      BY <1>7, <2>2
    <3> QED BY <1>10, <3>1 DEF Past, Is
  <2> QED BY <1>6, <2>1, <2>2
<1>12. args' = ArgList(M.env, es, k + 1)
  <2> DEFINE v == [i \in 1 .. Len(es) |-> Denotes(M.env, es[i])]
  <2>1. Value(tok) = Denotes(M.env, es[k + 1])
    BY <1>1, <1>7 DEF Holds
  <2>2. CASE k < MaxArgs
    <3>1. Kept(k) = k /\ Kept(k + 1) = k + 1
      BY <1>6, <2>2 DEF Kept, MaxArgs
    <3>2. args = [i \in 1 .. k |-> Denotes(M.env, es[i])]
      BY <1>1, <3>1 DEF ArgList
    <3>3. Len(args) = k
      BY <1>6, <3>2
    <3>4. args' = Append(args, Denotes(M.env, es[k + 1]))
      BY <1>10, <2>1, <2>2, <3>3
    <3>5. Append([i \in 1 .. k |-> Denotes(M.env, es[i])], Denotes(M.env, es[k + 1]))
            = [i \in 1 .. k + 1 |-> Denotes(M.env, es[i])]
      BY <1>6
    <3> QED BY <3>1, <3>2, <3>4, <3>5 DEF ArgList
  <2>3. CASE ~(k < MaxArgs)
    <3>1. Kept(k) = MaxArgs /\ Kept(k + 1) = MaxArgs
      BY <1>6, <2>3 DEF Kept, MaxArgs
    <3>2. args = [i \in 1 .. MaxArgs |-> Denotes(M.env, es[i])]
      BY <1>1, <3>1 DEF ArgList
    <3>3. Len(args) = MaxArgs
      BY <3>2 DEF MaxArgs
    <3>4. args' = args
      BY <1>10, <3>3 DEF MaxArgs
    <3> QED BY <3>1, <3>2, <3>4 DEF ArgList
  <2> QED BY <2>2, <2>3
<1>13. Holds(M)' /\ SymbolsInv'
  <2>1. Env' = Env /\ SymbolsInv'
    BY <1>10, EnvSame
  <2> QED BY <1>1, <1>10, <2>1 DEF Holds, M
<1>14. /\ name_tok' = s.call /\ UNCHANGED script
       /\ tok' = lexer_next(script', ArgPlace(es, gap, l, k + 1))
  BY <1>1, <1>10, <1>11
<1> QED BY <1>1, <1>6, <1>11, <1>12, <1>13, <1>14, Zenon DEF InCall, s, M, l, c, es

(* The arguments that are kept are as many as a built-in can need, and the *)
(* ones it gets are those the call means.                                  *)
LEMMA ArgsEnough ==
  ASSUME NEW env, NEW es \in Seq(Expression), NEW r \in 0 .. 8
  PROVE  /\ Len(ArgList(env, es, Len(es))) >= r <=> Len(es) >= r
         /\ Len(es) >= r => SubSeq(ArgList(env, es, Len(es)), 1, r) = FirstArgs(env, es, r)
<1> DEFINE a == ArgList(env, es, Len(es))
           N == Len(es)
           K == Kept(N)
           V == {Denotes(env, es[i]) : i \in 1 .. K}
           v == [i \in 1 .. r |-> Denotes(env, es[i])]
<1>1. N \in Nat
  OBVIOUS
<1> HIDE DEF N
<1>2. K \in Nat /\ (K >= r <=> N >= r)
  BY <1>1 DEF Kept, MaxArgs
<1> HIDE DEF K
<1>3. a = [i \in 1 .. K |-> Denotes(env, es[i])]
  BY DEF ArgList, K, N
<1>4. a \in Seq(V) /\ Len(a) = K
  <2>1. a \in [1 .. K -> V]
    BY <1>3
  <2> HIDE DEF V
  <2> QED BY <1>2, <2>1
<1>5. ASSUME N >= r
      PROVE  SubSeq(a, 1, r) = v
  <2> DEFINE w == SubSeq(a, 1, r)
  <2>1. r \in 0 .. K /\ r \in Nat
    BY <1>2, <1>5
  <2>2. w \in Seq(V) /\ Len(w) = r /\ \A i \in 1 .. r : w[i] = a[1 + i - 1]
    <3> HIDE DEF V
    <3> QED BY <1>2, <1>4, <2>1
  <2>3. \A i \in 1 .. r : w[i] = v[i]
    <3> TAKE i \in 1 .. r
    <3>1. i \in 1 .. K /\ 1 + i - 1 = i
      BY <1>2, <2>1
    <3>2. a[i] = Denotes(env, es[i])
      BY <1>3, <3>1
    <3> HIDE DEF w
    <3> QED BY <2>2, <3>1, <3>2
  <2>4. v \in Seq(V) /\ Len(v) = r
    <3>1. \A i \in 1 .. r : Denotes(env, es[i]) \in V
      BY <1>2, <2>1
    <3> HIDE DEF V
    <3> QED BY <2>1, <3>1
  <2> HIDE DEF w, v, V
  <2>5. w = v
    BY <2>2, <2>3, <2>4, SeqEqual
  <2> QED BY <2>5 DEF w
<1> QED BY <1>2, <1>4, <1>5 DEF N, FirstArgs

(* Behind the last argument the call is carried out or reported, and the   *)
(* next statement follows (serpentc.c:71-80).                              *)
LEMMA CallDone ==
  ASSUME SymbolsInv, NEW p, NEW gap, NEW m, InProgram(p, gap, m), NEW n,
         InCall(p, gap, m, n, Len(p[n].with)), EvalStep
  PROVE  SymbolsInv' /\ AtTop(p, gap, m, n)' /\ UNCHANGED script
<1> DEFINE s == p[n]
           c == Place(p, gap, n - 1)
           M == MeaningTo(m, p)[n - 1]
           l == ListPlace(c, s, gap)
           es == s.with
           x == ListText(es, gap)
           t1 == lexer_next(script, c)
           paren == lexer_next(script, t1.next)
           close == lexer_next(script, l + Len(x))
           z == lexer_next(script, close.next)
<1>1. /\ n \in 1 .. Len(p) /\ ~IsSet(s)
      /\ pc = "args" /\ name_tok = s.call
      /\ args = ArgList(M.env, es, Len(es))
      /\ tok = lexer_next(script, ArgPlace(es, gap, l, Len(es)))
      /\ Holds(M)
  BY DEF InCall
<1>2. /\ script \in Text /\ gap \in Seq(Blank) /\ s \in Statement /\ Len(p) \in Nat
      /\ Stands(script, c, StatementText(s, gap))
      /\ Place(p, gap, n) = c + Len(StatementText(s, gap))
      /\ p \in Seq(Statement) /\ m \in MeaningSet
  BY <1>1, RunsText
<1>3. M \in MeaningSet /\ MeaningTo(m, p)[n] = Executed(M, s)
  <2>1. n - 1 \in 0 .. Len(p)
    BY <1>1, <1>2
  <2> QED BY <1>1, <1>2, <2>1, MeaningUnfolds
<1> HIDE DEF s, c, M
<1>4. es \in Seq(Expression)
  BY <1>1, <1>2, StatementShape
<1>5. close.type = "RPAREN" /\ z.type = "SEMICOLON" /\ z.next = Place(p, gap, n)
  <2>1. close.type = "RPAREN" /\ z.type = "SEMICOLON" /\ z.next = c + Len(StatementText(s, gap))
    <3> HIDE DEF paren, l, x, close, z, t1
    <3> QED BY <1>1, <1>2, CallRead DEF paren, l, x, close, z, t1
  <2> QED BY <1>2, <2>1
<1>6. tok = close
  <2>1. ~(Len(es) \in 1 .. Len(es) - 1)
    BY <1>4
  <2>2. ArgPlace(es, gap, l, Len(es)) = l + Len(x)
    BY <2>1, Zenon DEF ArgPlace, ListText
  <2> HIDE DEF es, l, x
  <2> QED BY <1>1, <2>2
<1> HIDE DEF close, z, l, x, paren, t1
<1>7. Dispatch
  <2>1. ~Assignment /\ ~Call /\ ~Skip /\ ~Return
    BY <1>1 DEF Assignment, Call, Skip, Return
  <2>2. ~Argument
    BY <1>5, <1>6 DEF Argument, InList
  <2> QED BY <2>1, <2>2 DEF EvalStep
<1>8. tok' = lexer_next(script, Place(p, gap, n))
  <2>1. Past(tok, "RPAREN") = z
    BY <1>5, <1>6 DEF Past, Is, Next1, z
  <2>2. Past(z, "SEMICOLON") = lexer_next(script, z.next)
    BY <1>5 DEF Past, Is, Next1
  <2>3. tok' = Past(Past(tok, "RPAREN"), "SEMICOLON")
    BY <1>7 DEF Dispatch
  <2> QED BY <1>5, <2>1, <2>2, <2>3
<1> DEFINE b == GivenArgs(M.env, s)
<1>9. s.call \in DOMAIN Arity =>
        /\ Len(args) >= Arity[s.call] <=> Len(es) >= Arity[s.call]
        /\ Len(es) >= Arity[s.call] => SubSeq(args, 1, Arity[s.call]) = b
  <2> SUFFICES ASSUME s.call \in DOMAIN Arity
               PROVE  /\ Len(args) >= Arity[s.call] <=> Len(es) >= Arity[s.call]
                      /\ Len(es) >= Arity[s.call] => SubSeq(args, 1, Arity[s.call]) = b
    OBVIOUS
  <2> DEFINE r == Arity[s.call]
  <2>1. r \in 0 .. 8
    BY ArityAssumption
  <2> HIDE DEF r, es
  <2>2. /\ Len(args) >= r <=> Len(es) >= r
        /\ Len(es) >= r => SubSeq(args, 1, r) = FirstArgs(M.env, es, r)
    <3>1. /\ Len(ArgList(M.env, es, Len(es))) >= r <=> Len(es) >= r
          /\ Len(es) >= r => SubSeq(ArgList(M.env, es, Len(es)), 1, r) = FirstArgs(M.env, es, r)
      BY <1>4, <2>1, ArgsEnough
    <3> QED BY <1>1, <3>1
  <2> QED BY <2>2 DEF r, es, GivenArgs
<1> HIDE DEF b
<1>10. Dispatches <=> Understood(s)
  BY <1>1, <1>9 DEF Dispatches, Understood
<1>11. /\ drawn' = IF Understood(s) THEN Append(drawn, <<s.call, b>>) ELSE drawn
       /\ out' = IF Understood(s) THEN Append(out, "executed") ELSE Append(out, "unknown")
       /\ pc' = "top" /\ UNCHANGED <<script, symbols>>
  <2>1. pc' = "top" /\ UNCHANGED <<script, symbols>>
    BY <1>7 DEF Dispatch
  <2>2. CASE Understood(s)
    <3>1. SubSeq(args, 1, Arity[s.call]) = b
      BY <1>9, <2>2 DEF Understood
    <3>2. drawn' = Append(drawn, <<name_tok, SubSeq(args, 1, Arity[name_tok])>>) /\ out' = Append(out, "executed")
      BY <1>7, <1>10, <2>2 DEF Dispatch
    <3> QED BY <1>1, <2>1, <2>2, <3>1, <3>2
  <2>3. CASE ~Understood(s)
    <3>1. drawn' = drawn /\ out' = Append(out, "unknown")
      BY <1>7, <1>10, <2>3 DEF Dispatch
    <3> QED BY <2>1, <2>3, <3>1
  <2> QED BY <2>2, <2>3
<1>12. Env = M.env /\ drawn = M.drawn /\ out = M.out
  BY <1>1 DEF Holds
<1>13. Env' = Env /\ SymbolsInv'
  BY <1>11, EnvSame
<1> DEFINE X == MeaningTo(m, p)[n]
<1>14. /\ X.env = M.env
       /\ X.drawn = IF Understood(s) THEN Append(M.drawn, <<s.call, b>>) ELSE M.drawn
       /\ X.out = IF Understood(s) THEN Append(M.out, "executed") ELSE Append(M.out, "unknown")
  BY <1>1, <1>2, <1>3, ExecutedCall DEF b
<1> HIDE DEF X
<1>15. Env' = X.env /\ drawn' = X.drawn /\ out' = X.out
  BY <1>11, <1>12, <1>13, <1>14
<1>16. n \in 0 .. Len(p) /\ tok' = lexer_next(script', Place(p, gap, n))
  BY <1>1, <1>2, <1>8, <1>11
<1> QED BY <1>11, <1>13, <1>15, <1>16 DEF AtTop, Holds, X

(* Behind the last statement the interpreter returns (serpentc.c:38, 92).  *)
LEMMA TopEnd ==
  ASSUME SymbolsInv, NEW p, NEW gap, NEW m, InProgram(p, gap, m), AtTop(p, gap, m, Len(p)), EvalStep
  PROVE  SymbolsInv' /\ pc' = "idle" /\ Holds(Meaning(m, p))'
<1> DEFINE M == MeaningTo(m, p)[Len(p)]
<1>1. pc = "top" /\ tok = lexer_next(script, Place(p, gap, Len(p))) /\ Holds(M)
  BY DEF AtTop
<1>2. tok.type = "EOF"
  BY <1>1, RunsText, AtEnd
<1>3. Meaning(m, p) = M
  BY DEF Meaning
<1> HIDE DEF M
<1>4. Return
  <2>1. ~Assignment /\ ~Call
    BY <1>2 DEF Assignment, Call, Is
  <2>2. ~Argument /\ ~Dispatch
    BY <1>1 DEF Argument, InList, Dispatch
  <2>3. ~Skip
    BY <1>2 DEF Skip, Running
  <2> QED BY <2>1, <2>2, <2>3 DEF EvalStep
<1>5. pc' = "idle" /\ UNCHANGED <<symbols, out, drawn>>
  BY <1>4 DEF Return
<1>6. Env' = Env /\ SymbolsInv'
  BY <1>5, EnvSame
<1>7. Env' = M.env /\ drawn' = M.drawn /\ out' = M.out
  BY <1>1, <1>5, <1>6 DEF Holds
<1> QED BY <1>3, <1>5, <1>6, <1>7 DEF Holds, M, Meaning

-----------------------------------------------------------------------------
(* The invariant is inductive.                                             *)
LEMMA ProgInit == Init => ProgInv
<1> SUFFICES ASSUME Init PROVE ProgInv
  OBVIOUS
<1>1. /\ builtins_init /\ pc = "idle" /\ drawn = << >> /\ out = << >>
      /\ meant = [known |-> TRUE, env |-> Env, drawn |-> << >>, out |-> << >>]
  BY DEF Init, serpentc_init, Env
<1>2. SymbolsInv
  BY <1>1, InitInv
<1>3. Env \in Environments
  BY <1>2, EnvIs
<1> HIDE DEF Env
<1>4. meant \in MeaningSet
  <2> DEFINE D == Seq(Name \X Seq(Word))
             O == Seq(Messages)
  <2>1. << >> \in D /\ << >> \in O
    OBVIOUS
  <2> HIDE DEF D, O
  <2>2. meant \in [known : BOOLEAN, env : Environments, drawn : D, out : O]
    BY <1>1, <1>3, <2>1
  <2> QED BY <2>2 DEF MeaningSet, D, O
<1>5. Holds(meant)
  BY <1>1 DEF Holds
<1> QED BY <1>1, <1>2, <1>4, <1>5 DEF ProgInv

(* A program begins at its first statement.                                *)
LEMMA ProgEval ==
  ASSUME ProgInv, NEW p \in Programs, NEW gap \in Gaps, EvalProgram(p, gap)
  PROVE  ProgInv'
<1>1. p \in Seq(Statement) /\ gap \in Seq(Blank) /\ meant \in MeaningSet
  BY ProgramsAssumption DEF ProgInv
<1>2. /\ pc = "idle" /\ pc' = "top"
      /\ script' = ProgramText(p, gap)
      /\ tok' = lexer_next(ProgramText(p, gap), 1)
      /\ symbols' = symbols /\ out' = out /\ drawn' = drawn
      /\ meant' = Meaning(meant, p)
  BY DEF EvalProgram, Eval
<1>3. Len(p) \in Nat /\ Len(p) \in 0 .. Len(p) /\ 0 \in 0 .. Len(p)
  BY <1>1
<1>4. meant' \in MeaningSet /\ meant'.known = meant.known
  BY <1>1, <1>2, <1>3, MeaningUnfolds DEF Meaning
<1>5. ASSUME meant.known
      PROVE  SymbolsInv' /\ InRun'
  <2>1. SymbolsInv /\ Holds(meant)
    BY <1>2, <1>5 DEF ProgInv
  <2>2. Env' = Env /\ SymbolsInv'
    BY <1>2, <2>1, EnvSame
  <2>3. PICK m : m = meant
    OBVIOUS
  <2>4. InProgram(p, gap, m)'
    BY <1>1, <1>2, <2>3 DEF InProgram
  <2>5. AtTop(p, gap, m, 0)'
    <3>1. tok' = lexer_next(script', Place(p, gap, 0))
      BY <1>1, <1>2, ProgramStands
    <3> DEFINE M == MeaningTo(m, p)[0]
    <3>2. M = m
      BY <1>1, <2>3, MeaningUnfolds
    <3> HIDE DEF M
    <3>3. Env' = M.env /\ drawn' = M.drawn /\ out' = M.out
      BY <1>2, <2>1, <2>2, <2>3, <3>2 DEF Holds
    <3> QED BY <1>2, <1>3, <3>1, <3>3 DEF AtTop, Holds, M
  <2> QED BY <2>2, <2>4, <2>5, Zenon DEF InRun
<1> QED BY <1>2, <1>4, <1>5 DEF ProgInv

(* A step of the interpreter does what the statement it is in means.       *)
LEMMA ProgRun ==
  ASSUME ProgInv, Run
  PROVE  ProgInv'
<1>1. EvalStep /\ meant' = meant
  BY DEF Run
<1>2. pc # "idle"
  BY <1>1 DEF EvalStep, Assignment, Call, Argument, InList, Dispatch, Skip, Return
<1>3. ASSUME meant.known
      PROVE  SymbolsInv' /\ (IF pc' = "idle" THEN Holds(meant)' ELSE InRun')
  <2>1. SymbolsInv /\ InRun
    BY <1>2, <1>3 DEF ProgInv
  <2>2. PICK p, gap, m : /\ InProgram(p, gap, m)
                         /\ \/ \E n : AtTop(p, gap, m, n)
                            \/ \E n, k : InCall(p, gap, m, n, k)
    BY <2>1, Zenon DEF InRun
  <2>3. Len(p) \in Nat /\ \A n \in 1 .. Len(p) : p[n] \in Statement
    BY <2>2, RunsText
  <2>4. UNCHANGED script => InProgram(p, gap, m)'
    BY <1>1, <2>2 DEF InProgram
  <2>5. \A n : AtTop(p, gap, m, n)' => pc' # "idle"
    BY DEF AtTop
  <2>6. \A n, k : InCall(p, gap, m, n, k)' => pc' # "idle"
    BY DEF InCall
  <2>7. \A n : AtTop(p, gap, m, n)' /\ UNCHANGED script => InRun'
    BY <2>4, Zenon DEF InRun
  <2>8. \A n, k : InCall(p, gap, m, n, k)' /\ UNCHANGED script => InRun'
    BY <2>4, Zenon DEF InRun
  <2>9. ASSUME NEW n, AtTop(p, gap, m, n)
        PROVE  SymbolsInv' /\ (IF pc' = "idle" THEN Holds(meant)' ELSE InRun')
    <3>1. n \in 0 .. Len(p)
      BY <2>9 DEF AtTop
    <3>2. CASE n = Len(p)
      <4>1. SymbolsInv' /\ pc' = "idle" /\ Holds(Meaning(m, p))'
        BY <1>1, <2>1, <2>2, <2>9, <3>2, TopEnd
      <4>2. meant' = Meaning(m, p)
        BY <1>1, <2>2 DEF InProgram
      <4>3. Holds(meant)'
        BY <4>1, <4>2 DEF Holds
      <4> QED BY <4>1, <4>3
    <3>3. CASE n # Len(p)
      <4>1. n + 1 \in 1 .. Len(p) /\ (n + 1) - 1 = n
        BY <2>3, <3>1, <3>3
      <4>2. PICK k : k = n + 1
        OBVIOUS
      <4>3. k \in 1 .. Len(p) /\ AtTop(p, gap, m, k - 1)
        BY <2>9, <4>1, <4>2
      <4>4. CASE IsSet(p[k])
        <5>1. SymbolsInv' /\ AtTop(p, gap, m, k)' /\ UNCHANGED script
          BY <1>1, <2>1, <2>2, <4>3, <4>4, TopSet
        <5> QED BY <2>5, <2>7, <5>1
      <4>5. CASE ~IsSet(p[k])
        <5>1. SymbolsInv' /\ InCall(p, gap, m, k, 0)' /\ UNCHANGED script
          BY <1>1, <2>1, <2>2, <4>3, <4>5, TopCall
        <5> QED BY <2>6, <2>8, <5>1
      <4> QED BY <4>4, <4>5
    <3> QED BY <3>2, <3>3
  <2>10. ASSUME NEW n, NEW k, InCall(p, gap, m, n, k)
         PROVE  SymbolsInv' /\ (IF pc' = "idle" THEN Holds(meant)' ELSE InRun')
    <3>1. n \in 1 .. Len(p) /\ ~IsSet(p[n]) /\ k \in 0 .. Len(p[n].with)
      BY <2>10 DEF InCall
    <3>2. Len(p[n].with) \in Nat
      BY <2>3, <3>1, StatementShape
    <3>3. CASE k = Len(p[n].with)
      <4>1. SymbolsInv' /\ AtTop(p, gap, m, n)' /\ UNCHANGED script
        BY <1>1, <2>1, <2>2, <2>10, <3>3, CallDone
      <4> QED BY <2>5, <2>7, <4>1
    <3>4. CASE k # Len(p[n].with)
      <4>1. k < Len(p[n].with)
        BY <3>1, <3>2, <3>4
      <4>2. SymbolsInv' /\ InCall(p, gap, m, n, k + 1)' /\ UNCHANGED script
        BY <1>1, <2>1, <2>2, <2>10, <4>1, ArgStep
      <4> QED BY <2>6, <2>8, <4>2
    <3> QED BY <3>3, <3>4
  <2> QED BY <2>2, <2>9, <2>10
<1> QED BY <1>1, <1>3 DEF ProgInv

LEMMA ProgNext == ProgInv /\ [Next]_vars => ProgInv'
<1> SUFFICES ASSUME ProgInv, [Next]_vars PROVE ProgInv'
  OBVIOUS
<1>1. ASSUME NEW t \in Texts, EvalText(t)
      PROVE  ProgInv'
  <2>1. meant' = [meant EXCEPT !.known = FALSE]
    BY <1>1 DEF EvalText
  <2>2. ASSUME NEW E, NEW D, NEW O, NEW y \in [known : BOOLEAN, env : E, drawn : D, out : O]
        PROVE  /\ [y EXCEPT !.known = FALSE] \in [known : BOOLEAN, env : E, drawn : D, out : O]
               /\ ~[y EXCEPT !.known = FALSE].known
    OBVIOUS
  <2>3. meant' \in MeaningSet /\ ~meant'.known
    BY <2>1, <2>2, Zenon DEF ProgInv, MeaningSet
  <2> QED BY <2>3 DEF ProgInv
<1>2. ASSUME NEW p \in Programs, NEW gap \in Gaps, EvalProgram(p, gap)
      PROVE  ProgInv'
  BY <1>2, ProgEval
<1>3. CASE Run
  BY <1>3, ProgRun
<1>4. CASE UNCHANGED vars
  <2>1. UNCHANGED <<symbols, script, pc, tok, name_tok, args, out, drawn, meant>>
    BY <1>4 DEF vars, scVars, evalVars
  <2>2. Env' = Env /\ (SymbolsInv => SymbolsInv')
    BY <2>1, EnvSame
  <2>3. Holds(meant) => Holds(meant)'
    BY <2>1, <2>2 DEF Holds
  <2>4. InRun => InRun'
    <3> SUFFICES ASSUME InRun PROVE InRun'
      OBVIOUS
    <3>1. PICK p, gap, m : /\ InProgram(p, gap, m)
                           /\ \/ \E n : AtTop(p, gap, m, n)
                              \/ \E n, k : InCall(p, gap, m, n, k)
      BY Zenon DEF InRun
    <3>2. InProgram(p, gap, m)'
      BY <2>1, <3>1 DEF InProgram
    <3>3. \A n : AtTop(p, gap, m, n) => AtTop(p, gap, m, n)'
      BY <2>1, <2>2 DEF AtTop, Holds
    <3>4. \A n, k : InCall(p, gap, m, n, k) => InCall(p, gap, m, n, k)'
      BY <2>1, <2>2 DEF InCall, Holds
    <3> QED BY <3>1, <3>2, <3>3, <3>4, Zenon DEF InRun
  <2> QED BY <2>1, <2>2, <2>3, <2>4 DEF ProgInv
<1> QED BY <1>1, <1>2, <1>3, <1>4 DEF Next, Wait

(* Every program of the grammar does what it says, however it is spaced,   *)
(* whatever programs ran before it and whatever the size of the symbol     *)
(* table (serpentc.c:30-93).                                               *)
THEOREM RunsAsWrittenAlways == Spec => []RunsAsWritten
<1>1. ProgInv => RunsAsWritten
  BY DEF ProgInv, RunsAsWritten, Holds, Env
<1> QED BY ProgInit, ProgNext, <1>1, PTL DEF Spec
=============================================================================
