--------------------------- MODULE SerpentCProofs ---------------------------
(***************************************************************************)
(* Theorems about the script interpreter, for every number of slots,       *)
(* length of names, width of words, set of built-ins and text.             *)
(*                                                                         *)
(* The symbol table: a name that is in no slot is put into a free one, a   *)
(* name that is in a slot stays in that slot, so each name is in one slot  *)
(* at most and the value found for it is the value stored last.            *)
(* The tokenizer: a token ends behind the place it was looked for unless   *)
(* the text is at its end, and a number is a word.  The interpreter: its   *)
(* tokens are tokens of the text, it does to the table what assignments    *)
(* do, and every turn leaves less of the text or of the statement.         *)
(***************************************************************************)
EXTENDS SerpentC, LoopProofs, FiniteSetTheorems, FunctionTheorems

-----------------------------------------------------------------------------
(* The symbol table.                                                       *)

(* The linear search finds a slot of the set it looks for.                 *)
LEMMA FirstIn ==
  ASSUME NEW S \in SUBSET Slot, S # {}
  PROVE  First(S) \in S
<1>1. S \in SUBSET Nat
  BY SymbolsAssumption DEF Slot
<1>2. \E i \in S : \A j \in S : i <= j
  BY <1>1, LeastOf
<1> QED BY <1>2 DEF First

(* Every entry of the predefined list is a name that fits and a value.     *)
LEMMA PredefinedEntry ==
  ASSUME NEW i \in Slot, i < Len(Predefined)
  PROVE  /\ i + 1 \in 1 .. Len(Predefined)
         /\ Predefined[i + 1][1] \in Name
         /\ Predefined[i + 1][2] \in Word
         /\ Accepts(Predefined[i + 1][1])
<1>1. i + 1 \in 1 .. Len(Predefined)
  BY PredefinedAssumption, SymbolsAssumption DEF Slot
<1>2. Predefined[i + 1] \in Name \X Word
  BY <1>1, PredefinedAssumption
<1> QED BY <1>1, <1>2, PredefinedAssumption

(* The table builtins_init makes is well formed (builtins.c:15-29).        *)
LEMMA InitInv == builtins_init => SymbolsInv
<1> SUFFICES ASSUME builtins_init PROVE SymbolsInv
  OBVIOUS
<1>1. \A i \in Slot : i < Len(Predefined) =>
        symbols[i] = [is_set |-> TRUE, name |-> Predefined[i + 1][1], value |-> Predefined[i + 1][2]]
  BY DEF builtins_init
<1>2. \A i \in Slot : ~(i < Len(Predefined)) => symbols[i] = Empty
  BY DEF builtins_init
<1>3. \A i \in Slot : symbols[i] \in [is_set : BOOLEAN, name : Name, value : Word]
  <2> TAKE i \in Slot
  <2>1. CASE i < Len(Predefined)
    <3>1. Predefined[i + 1][1] \in Name /\ Predefined[i + 1][2] \in Word
      BY <2>1, PredefinedEntry
    <3>2. symbols[i] = [is_set |-> TRUE, name |-> Predefined[i + 1][1], value |-> Predefined[i + 1][2]]
      BY <2>1, <1>1
    <3> QED BY <3>1, <3>2
  <2>2. CASE ~(i < Len(Predefined))
    <3>1. Empty \in [is_set : BOOLEAN, name : Name, value : Word]
      BY SymbolsAssumption, Zenon DEF Empty
    <3> QED BY <2>2, <1>2, <3>1
  <2> QED BY <2>1, <2>2
<1>4. SymbolsTypeOK
  <2>1. symbols = [i \in Slot |-> symbols[i]]
    BY DEF builtins_init
  <2> QED BY <2>1, <1>3 DEF SymbolsTypeOK
<1>5. \A i \in Slot : symbols[i].is_set =>
        i < Len(Predefined) /\ symbols[i].name = Predefined[i + 1][1]
  <2> TAKE i \in Slot
  <2>1. CASE i < Len(Predefined)
    <3> DEFINE m == Predefined[i + 1][1]
               v == Predefined[i + 1][2]
    <3>1. symbols[i] = [is_set |-> TRUE, name |-> m, value |-> v]
      BY <2>1, <1>1
    <3> HIDE DEF m, v
    <3>2. symbols[i].name = m
      BY <3>1
    <3> QED BY <2>1, <3>2 DEF m
  <2>2. CASE ~(i < Len(Predefined))
    <3>1. symbols[i] = Empty
      BY <2>2, <1>2
    <3>2. ~symbols[i].is_set
      BY <3>1 DEF Empty
    <3> QED BY <3>2
  <2> QED BY <2>1, <2>2
<1>6. NamesFit
  BY <1>5, PredefinedEntry DEF NamesFit
<1>7. OneSlotEach
  <2> SUFFICES ASSUME NEW i \in Slot, NEW j \in Slot,
                      symbols[i].is_set, symbols[j].is_set, symbols[i].name = symbols[j].name
               PROVE  i = j
    BY DEF OneSlotEach
  <2>1. Predefined[i + 1][1] = Predefined[j + 1][1]
    BY <1>5
  <2>2. i + 1 \in 1 .. Len(Predefined) /\ j + 1 \in 1 .. Len(Predefined)
    BY <1>5, PredefinedEntry
  <2>3. i + 1 = j + 1
    BY <2>1, <2>2, PredefinedAssumption
  <2> QED BY <2>3, SymbolsAssumption DEF Slot
<1> QED BY <1>4, <1>6, <1>7 DEF SymbolsInv

(* The slot symbol_set writes.                                             *)
Target(n) == IF Holding(n) # {} THEN First(Holding(n)) ELSE First(Free)

(* An assignment that succeeds writes name and value into one slot: the    *)
(* name's own when it has one, else a free one (builtins.c:36-55).         *)
LEMMA SetEffect ==
  ASSUME SymbolsTypeOK, NEW n \in Name, NEW v \in Word, CanSet(n), symbol_set(n, v)
  PROVE  /\ Target(n) \in Slot
         /\ Holding(n) # {} => Target(n) \in Holding(n)
         /\ Holding(n) = {} => Target(n) \in Free
         /\ symbols' = [symbols EXCEPT ![Target(n)] = [is_set |-> TRUE, name |-> n, value |-> v]]
<1>1. Holding(n) \in SUBSET Slot /\ Free \in SUBSET Slot
  BY DEF Holding, Free
<1>2. CASE Holding(n) # {}
  <2>1. Target(n) \in Holding(n)
    BY <1>1, <1>2, FirstIn DEF Target
  <2>2. symbols[Target(n)].is_set /\ symbols[Target(n)].name = n
    BY <2>1 DEF Holding
  <2>3. symbols[Target(n)] \in [is_set : BOOLEAN, name : Name, value : Word]
    BY <1>1, <2>1 DEF SymbolsTypeOK
  <2>4. symbols' = [symbols EXCEPT ![Target(n)].value = v]
    BY <1>2 DEF symbol_set, Target
  <2>5. [symbols[Target(n)] EXCEPT !.value = v] = [is_set |-> TRUE, name |-> n, value |-> v]
    <3>1. ASSUME NEW r \in [is_set : BOOLEAN, name : Name, value : Word]
          PROVE  [r EXCEPT !.value = v] = [is_set |-> r.is_set, name |-> r.name, value |-> v]
      OBVIOUS
    <3>2. symbols[Target(n)].is_set = TRUE
      BY <2>2, <2>3
    <3> QED BY <2>2, <2>3, <3>1, <3>2
  <2> QED BY <1>1, <1>2, <2>1, <2>4, <2>5
<1>3. CASE Holding(n) = {}
  <2>1. Free # {}
    BY <1>3 DEF CanSet
  <2>2. Target(n) \in Free
    BY <1>1, <1>3, <2>1, FirstIn DEF Target
  <2>3. symbols' = [symbols EXCEPT ![Target(n)] = [is_set |-> TRUE, name |-> n, value |-> v]]
    BY <1>3 DEF symbol_set, Target
  <2> QED BY <1>1, <1>3, <2>2, <2>3
<1> QED BY <1>2, <1>3

(* symbol_set keeps the table well formed (builtins.c:31-56).              *)
LEMMA SetInv ==
  ASSUME SymbolsInv, NEW n \in Name, NEW v \in Word, symbol_set(n, v)
  PROVE  SymbolsInv'
<1>1. CASE ~CanSet(n)
  <2>1. symbols' = symbols
    BY <1>1 DEF symbol_set
  <2> QED BY <2>1 DEF SymbolsInv, SymbolsTypeOK, OneSlotEach, NamesFit
<1>2. CASE CanSet(n)
  <2> DEFINE t == Target(n)
             e == [is_set |-> TRUE, name |-> n, value |-> v]
  <2>1. SymbolsTypeOK
    BY DEF SymbolsInv
  <2>2. t \in Slot /\ symbols' = [symbols EXCEPT ![t] = e]
    BY <1>2, <2>1, SetEffect
  <2>3. \A i \in Slot : symbols'[i] = IF i = t THEN e ELSE symbols[i]
    BY <2>1, <2>2 DEF SymbolsTypeOK
  <2>4. \A i \in Slot : i # t => ~(symbols[i].is_set /\ symbols[i].name = n)
    <3>1. CASE Holding(n) # {}
      <4>1. symbols[t].is_set /\ symbols[t].name = n
        BY <1>2, <2>1, <3>1, SetEffect DEF Holding
      <4> QED BY <4>1, <2>2 DEF SymbolsInv, OneSlotEach
    <3>2. CASE Holding(n) = {}
      BY <3>2 DEF Holding
    <3> QED BY <3>1, <3>2
  <2>5. SymbolsTypeOK'
    BY <2>1, <2>2 DEF SymbolsTypeOK
  <2>6. NamesFit'
    BY <1>2, <2>3 DEF SymbolsInv, NamesFit, CanSet
  <2>7. OneSlotEach'
    <3> SUFFICES ASSUME NEW i \in Slot, NEW j \in Slot, symbols'[i].is_set, symbols'[j].is_set,
                        symbols'[i].name = symbols'[j].name
                 PROVE  i = j
      BY DEF OneSlotEach
    <3>1. CASE i = t /\ j = t
      BY <3>1
    <3>2. CASE i = t /\ j # t
      BY <3>2, <2>3, <2>4
    <3>3. CASE i # t /\ j = t
      BY <3>3, <2>3, <2>4
    <3>4. CASE i # t /\ j # t
      BY <3>4, <2>3 DEF SymbolsInv, OneSlotEach
    <3> QED BY <3>1, <3>2, <3>3, <3>4
  <2> QED BY <2>5, <2>6, <2>7 DEF SymbolsInv
<1> QED BY <1>1, <1>2

(* The table is well formed whatever is assigned: no name is in two slots  *)
(* and every name fits (builtins.c:15-56).                                 *)
THEOREM SymbolsInvAlways == SymbolsSpec => []SymbolsInv
<1>1. SymbolsInv /\ [\E n \in Name, v \in Word : symbol_set(n, v)]_symbols => SymbolsInv'
  <2> SUFFICES ASSUME SymbolsInv, [\E n \in Name, v \in Word : symbol_set(n, v)]_symbols
               PROVE  SymbolsInv'
    OBVIOUS
  <2>1. ASSUME NEW n \in Name, NEW v \in Word, symbol_set(n, v)
        PROVE  SymbolsInv'
    BY <2>1, SetInv
  <2>2. CASE UNCHANGED symbols
    BY <2>2 DEF SymbolsInv, SymbolsTypeOK, OneSlotEach, NamesFit
  <2> QED BY <2>1, <2>2
<1> QED BY InitInv, <1>1, PTL DEF SymbolsSpec

-----------------------------------------------------------------------------
(* Names and used slots correspond one to one, so that there is a free     *)
(* slot exactly when fewer names than slots have a value.                  *)
LEMMA DefinedCount ==
  ASSUME SymbolsInv
  PROVE  /\ IsFiniteSet(Defined)
         /\ Free # {} <=> Cardinality(Defined) < SERPENTC_MAX_VARS
<1> DEFINE U == Slot \ Free
           f == [i \in U |-> symbols[i].name]
<1>1. IsFiniteSet(Slot) /\ Cardinality(Slot) = SERPENTC_MAX_VARS
  <2>1. SERPENTC_MAX_VARS \in Nat /\ 0 \in Int /\ SERPENTC_MAX_VARS - 1 \in Int
    BY SymbolsAssumption
  <2>2. /\ IsFiniteSet(0 .. SERPENTC_MAX_VARS - 1)
        /\ Cardinality(0 .. SERPENTC_MAX_VARS - 1) =
             IF 0 > SERPENTC_MAX_VARS - 1 THEN 0 ELSE (SERPENTC_MAX_VARS - 1) - 0 + 1
    BY <2>1, FS_Interval
  <2> QED BY <2>1, <2>2 DEF Slot
<1>2. Free \in SUBSET Slot /\ U \in SUBSET Slot
  BY DEF Free
<1>3. /\ IsFiniteSet(U)
      /\ Cardinality(U) <= Cardinality(Slot)
      /\ Cardinality(Slot) = Cardinality(U) => Slot = U
  BY <1>1, <1>2, FS_Subset
<1>4. \A i \in U : symbols[i].is_set /\ symbols[i].name \in Name
  BY DEF Free, SymbolsInv, SymbolsTypeOK
<1>5. \A i \in U : symbols[i].name \in Defined
  BY <1>4 DEF SymbolsInv, NamesFit, Defined, Found, Holding
<1>6. f \in [U -> Defined]
  BY <1>5
<1>7. \A i, j \in U : f[i] = f[j] => i = j
  BY <1>4 DEF SymbolsInv, OneSlotEach
<1>8. \A n \in Defined : \E i \in U : f[i] = n
  <2> TAKE n \in Defined
  <2>1. PICK i \in Slot : symbols[i].is_set /\ symbols[i].name = n
    BY DEF Defined, Found, Holding
  <2>2. i \in U
    BY <2>1 DEF Free
  <2> QED BY <2>1, <2>2
<1>9. f \in Bijection(U, Defined)
  BY <1>6, <1>7, <1>8, Fun_IsBij
<1>10. IsFiniteSet(Defined) /\ Cardinality(Defined) = Cardinality(U)
  <2>1. ExistsBijection(U, Defined)
    BY <1>9 DEF ExistsBijection
  <2> QED BY <2>1, <1>3, FS_Bijection
<1>11. Cardinality(U) \in Nat
  BY <1>3, FS_CardinalityType
<1>12. Free # {} <=> Cardinality(U) < SERPENTC_MAX_VARS
  <2>1. Free # {} => U # Slot
    BY <1>2
  <2>2. Free = {} => U = Slot
    OBVIOUS
  <2>3. Slot = U <=> Cardinality(U) = SERPENTC_MAX_VARS
    BY <1>1, <1>3
  <2>4. Cardinality(U) <= SERPENTC_MAX_VARS
    BY <1>1, <1>3
  <2> HIDE DEF U
  <2>5. U # Slot <=> Cardinality(U) < SERPENTC_MAX_VARS
    BY <2>3, <2>4, <1>11, SymbolsAssumption
  <2> QED BY <2>1, <2>2, <2>5
<1> QED BY <1>10, <1>12

(* symbol_set's two reasons to fail are the map's.                         *)
LEMMA FullMeansFull == SymbolsInv => FailsOnlyWhenFull
<1> SUFFICES ASSUME SymbolsInv, NEW n \in Name
             PROVE  CanSet(n) <=> Abstract!Short(n) /\ Abstract!HasRoom(n)
  BY DEF FailsOnlyWhenFull
<1>1. Abstract!Short(n) <=> Accepts(n)
  BY DEF Abstract!Short, Accepts
<1>2. Abstract!HasRoom(n) <=> n \in Defined \/ Cardinality(Defined) < SERPENTC_MAX_VARS
  <2>1. DOMAIN [m \in Defined |-> symbol_get(m)] = Defined
    OBVIOUS
  <2>2. Abstract!Cardinality(Defined) = Cardinality(Defined)
    BY DEF Abstract!Cardinality, Cardinality
  <2> QED BY <2>1, <2>2 DEF Abstract!HasRoom
<1>3. Free # {} <=> Cardinality(Defined) < SERPENTC_MAX_VARS
  BY DefinedCount
<1>4. n \in Defined <=> Accepts(n) /\ Holding(n) # {}
  BY DEF Defined, Found
<1> QED BY <1>1, <1>2, <1>3, <1>4 DEF CanSet

(* An assignment is refused only when the name is too long or as many      *)
(* names as there are slots have a value (builtins.c:32, 42-55).           *)
THEOREM FailsOnlyWhenFullAlways == SymbolsSpec => []FailsOnlyWhenFull
BY SymbolsInvAlways, FullMeansFull, PTL

(* The value found for a name is a value.                                  *)
LEMMA GetsWord ==
  ASSUME SymbolsInv, NEW n \in Defined
  PROVE  symbol_get(n) \in Word
<1>1. Holding(n) \in SUBSET Slot /\ Holding(n) # {} /\ Found(n)
  BY DEF Defined, Found, Holding
<1>2. First(Holding(n)) \in Slot
  BY <1>1, FirstIn
<1> QED BY <1>1, <1>2 DEF symbol_get, SymbolsInv, SymbolsTypeOK

(* In a well-formed table, the value found for a name is the value of any  *)
(* slot that holds the name: there is only one.                            *)
LEMMA GetIs ==
  ASSUME SymbolsInv, NEW i \in Slot, symbols[i].is_set
  PROVE  /\ symbols[i].name \in Defined
         /\ symbol_get(symbols[i].name) = symbols[i].value
<1> DEFINE n == symbols[i].name
<1>1. n \in Name /\ Accepts(n)
  BY DEF SymbolsInv, SymbolsTypeOK, NamesFit
<1>2. Holding(n) = {i}
  BY DEF Holding, SymbolsInv, OneSlotEach
<1>3. First(Holding(n)) = i
  BY <1>2 DEF First
<1> QED BY <1>1, <1>2, <1>3 DEF Defined, Found, symbol_get

(* The same two facts for all slots at once.                               *)
LEMMA GetAll ==
  SymbolsInv => \A i \in Slot, m \in Name : symbols[i].is_set /\ symbols[i].name = m =>
                  m \in Defined /\ symbol_get(m) = symbols[i].value
BY GetIs

(* An assignment that succeeds gives its name the value and leaves every   *)
(* other name as it was (builtins.c:31-68).                                *)
LEMMA SetChangesOne ==
  ASSUME SymbolsInv, SymbolsInv', NEW n \in Name, NEW v \in Word, CanSet(n), symbol_set(n, v)
  PROVE  /\ Defined' = Defined \cup {n}
         /\ \A m \in Defined \cup {n} : symbol_get(m)' = IF m = n THEN v ELSE symbol_get(m)
<1> DEFINE t == Target(n)
           e == [is_set |-> TRUE, name |-> n, value |-> v]
<1>1. SymbolsTypeOK
  BY DEF SymbolsInv
<1>2. /\ t \in Slot
      /\ Holding(n) # {} => t \in Holding(n)
      /\ Holding(n) = {} => t \in Free
      /\ symbols' = [symbols EXCEPT ![t] = e]
  BY <1>1, SetEffect
<1>3. \A i \in Slot : symbols'[i] = IF i = t THEN e ELSE symbols[i]
  BY <1>1, <1>2 DEF SymbolsTypeOK
<1>4. symbols'[t].is_set /\ symbols'[t].name = n /\ symbols'[t].value = v
  BY <1>2, <1>3
<1>5. \A i \in Slot, m \in Name : symbols'[i].is_set /\ symbols'[i].name = m =>
        m \in Defined' /\ symbol_get(m)' = symbols'[i].value
  <2>1. SymbolsInv' => (\A i \in Slot, m \in Name : symbols[i].is_set /\ symbols[i].name = m =>
                          m \in Defined /\ symbol_get(m) = symbols[i].value)'
    BY GetAll, PTL
  <2> QED BY <2>1
<1>6. n \in Defined' /\ symbol_get(n)' = v
  BY <1>2, <1>4, <1>5
<1>7. ASSUME NEW m \in Defined, m # n
      PROVE  m \in Defined' /\ symbol_get(m)' = symbol_get(m)
  <2>1. PICK i \in Slot : symbols[i].is_set /\ symbols[i].name = m
    BY DEF Defined, Found, Holding
  <2>2. i # t
    BY <1>2, <1>7, <2>1 DEF Holding, Free
  <2>3. symbols'[i] = symbols[i]
    BY <1>3, <2>2
  <2>4. m \in Defined' /\ symbol_get(m)' = symbols[i].value
    BY <1>5, <2>1, <2>3 DEF Defined
  <2>5. symbol_get(m) = symbols[i].value
    BY <2>1, GetIs
  <2> QED BY <2>4, <2>5
<1>8. ASSUME NEW m \in Defined', m # n
      PROVE  m \in Defined
  <2>1. PICK i \in Slot : symbols'[i].is_set /\ symbols'[i].name = m
    BY DEF Defined, Found, Holding
  <2>2. symbols'[i] = symbols[i]
    BY <1>3, <1>4, <1>8, <2>1
  <2> QED BY <2>1, <2>2, GetIs
<1>9. Defined' = Defined \cup {n}
  BY <1>6, <1>7, <1>8
<1> QED BY <1>6, <1>7, <1>9

(* What an assignment changes is the value of its own name, for as long as *)
(* the machine runs (builtins.c:31-68): the table implements the map.      *)
THEOREM ImplementsMapAlways == SymbolsSpec => ImplementsMap
<1>1. builtins_init /\ SymbolsInv => Abstract!EnvInit
  <2> SUFFICES ASSUME SymbolsInv PROVE Abstract!EnvInit
    OBVIOUS
  <2>1. [n \in Defined |-> symbol_get(n)] \in [Defined -> Word]
    BY GetsWord
  <2>2. Defined \in SUBSET Name
    BY DEF Defined
  <2> QED BY <2>1, <2>2 DEF Abstract!EnvInit
<1>2. /\ SymbolsInv /\ SymbolsInv'
      /\ [\E n \in Name, v \in Word : symbol_set(n, v)]_symbols
      => [Abstract!EnvNext]_[n \in Defined |-> symbol_get(n)]
  <2> DEFINE env == [n \in Defined |-> symbol_get(n)]
  <2> SUFFICES ASSUME SymbolsInv, SymbolsInv',
                      [\E n \in Name, v \in Word : symbol_set(n, v)]_symbols,
                      env' # env
               PROVE  \E n \in Name : Abstract!Assign(n)
    BY DEF Abstract!EnvNext
  <2>1. CASE symbols' = symbols
    BY <2>1 DEF Defined, symbol_get, Found, Holding
  <2>2. ASSUME NEW n \in Name, NEW v \in Word, symbol_set(n, v), ~CanSet(n)
        PROVE  symbols' = symbols
    BY <2>2 DEF symbol_set
  <2>3. ASSUME NEW n \in Name, NEW v \in Word, symbol_set(n, v), CanSet(n)
        PROVE  Abstract!Assign(n)
    <3>1. Abstract!Short(n) /\ Abstract!HasRoom(n)
      BY <2>3, FullMeansFull DEF FailsOnlyWhenFull
    <3>2. /\ Defined' = Defined \cup {n}
          /\ \A m \in Defined \cup {n} : symbol_get(m)' = IF m = n THEN v ELSE symbol_get(m)
      BY <2>3, SetChangesOne
    <3>3. DOMAIN env = Defined /\ \A m \in Defined : env[m] = symbol_get(m)
      OBVIOUS
    <3>4. env' = [m \in Defined \cup {n} |-> IF m = n THEN v ELSE env[m]]
      BY <3>2, <3>3
    <3>5. env \in [Defined -> Word]
      BY GetsWord
    <3>6. env' \in [Defined \cup {n} -> Word] /\ \A m \in Defined \ {n} : env'[m] = env[m]
      BY <3>4, <3>5
    <3> QED BY <3>1, <3>3, <3>6 DEF Abstract!Assign
  <2> QED BY <2>1, <2>2, <2>3
<1> QED BY SymbolsInvAlways, <1>1, <1>2, PTL DEF SymbolsSpec, ImplementsMap, Abstract!EnvSpec

-----------------------------------------------------------------------------
(* The tokenizer.                                                          *)

(* A scan stops at the first character outside the set, or at the end, and *)
(* has passed only characters of the set (lexer.c:36-43, 55-93).           *)
LEMMA EndIs ==
  ASSUME NEW R, NEW src \in Seq(R), NEW p \in 1 .. Len(src) + 1, NEW S
  PROVE  /\ End(src, p, S) \in p .. Len(src) + 1
         /\ End(src, p, S) = Len(src) + 1 \/ src[End(src, p, S)] \notin S
         /\ \A r \in p .. End(src, p, S) - 1 : src[r] \in S
<1> DEFINE T == {q \in p .. Len(src) + 1 : q = Len(src) + 1 \/ src[q] \notin S}
<1>1. T \in SUBSET Nat /\ Len(src) + 1 \in T
  OBVIOUS
<1>2. PICK q \in T : \A r \in T : q <= r
  BY <1>1, LeastOf
<1>3. \A r \in p .. q - 1 : src[r] \in S
  <2> TAKE r \in p .. q - 1
  <2>1. r \notin T /\ r \in p .. Len(src) + 1 /\ r # Len(src) + 1
    BY <1>2
  <2> QED BY <2>1
<1>4. q \in p .. Len(src) + 1 /\ (q = Len(src) + 1 \/ src[q] \notin S)
  BY <1>2
<1> QED BY <1>3, <1>4 DEF End

(* A digit counts less than 16 (lexer.c:76-92)       .                     *)
LEMMA DigitIs == \A c \in Hex : DigitValue[c] \in 0 .. 15
<1>1. \A c \in Hex : \E v \in 0 .. 15 :
        \/ c = <<"0", "1", "2", "3", "4", "5", "6", "7", "8", "9", "a", "b", "c", "d", "e", "f">>[v + 1]
        \/ v > 9 /\ c = <<"A", "B", "C", "D", "E", "F">>[v - 9]
  BY SMTT(60) DEF Hex, Digit, HexLow, HexUp
<1> QED BY <1>1 DEF DigitValue

(* A value wrapped to 32 bits is a word (lexer.c:83, 90).                   *)
LEMMA Wrapped == \A x \in Int : x % WORD \in 0 .. WORD - 1
BY WordAssumption

(* The value of a number, one more digit at a time, is always a word: the  *)
(* recursion is well founded, by a least length for which it would not be. *)
LEMMA NumberIsWord ==
  ASSUME NEW digits \in Seq(Hex), NEW base \in Nat
  PROVE  Number(digits, base) \in 0 .. WORD - 1
<1> DEFINE L == Len(digits)
           W == 0 .. WORD - 1
           Body(f, n) == IF n = 0 THEN 0 ELSE (f[n - 1] * base + DigitValue[digits[n]]) % WORD
           Good(f, n) == f \in [0 .. n -> W] /\ \A m \in 0 .. n : f[m] = Body(f, m)
           Bad == {n \in 0 .. L : ~\E f : Good(f, n)}
<1>1. \A x \in W, n \in 1 .. L : (x * base + DigitValue[digits[n]]) % WORD \in W
  <2> TAKE x \in W, n \in 1 .. L
  <2>1. DigitValue[digits[n]] \in Int
    <3>1. digits[n] \in Hex
      OBVIOUS
    <3> QED BY <3>1, DigitIs
  <2>2. x \in Int /\ base \in Int
    BY WordAssumption
  <2>3. x * base \in Int
    BY <2>2
  <2> DEFINE y == x * base + DigitValue[digits[n]]
  <2>4. y \in Int
    BY <2>1, <2>3
  <2> HIDE DEF y
  <2>5. y % WORD \in 0 .. WORD - 1
    BY <2>4, Wrapped
  <2> QED BY <2>5 DEF y
<1> HIDE DEF Good
<1>2. Bad = {}
  <2> SUFFICES ASSUME Bad # {} PROVE FALSE
    OBVIOUS
  <2>0. Bad \in SUBSET Nat
    OBVIOUS
  <2>1. PICK n \in Bad : \A m \in Bad : n <= m
    <3> HIDE DEF Bad
    <3> QED BY <2>0, LeastOf
  <2>2. n \in 0 .. L
    BY <2>1
  <2>3. CASE n = 0
    <3>1. Good([m \in 0 .. 0 |-> 0], 0)
      BY WordAssumption DEF Good
    <3> QED BY <2>1, <2>3, <3>1
  <2>4. CASE n # 0
    <3>1. n - 1 \in 0 .. L /\ n - 1 \notin Bad
      <4> HIDE DEF Bad
      <4>1. n \in Nat /\ n - 1 \in 0 .. L
        BY <2>2, <2>4
      <4> QED BY <4>1, <2>0, <2>1
    <3>2. PICK f : Good(f, n - 1)
      BY <3>1
    <3> DEFINE x == (f[n - 1] * base + DigitValue[digits[n]]) % WORD
               g == [m \in 0 .. n |-> IF m = n THEN x ELSE f[m]]
    <3>3. x \in W
      BY <1>1, <2>2, <2>4, <3>2 DEF Good
    <3>4. \A m \in 0 .. n - 1 : g[m] = f[m]
      BY <2>2
    <3>5. g[n] = x
      BY <2>2
    <3> HIDE DEF x
    <3>6. g \in [0 .. n -> W]
      BY <2>2, <2>4, <3>2, <3>3 DEF Good
    <3>7. \A m \in 0 .. n : g[m] = Body(g, m)
      <4> TAKE m \in 0 .. n
      <4>1. CASE m = n
        <5>1. g[n - 1] = f[n - 1]
          BY <2>2, <2>4, <3>4
        <5> QED BY <4>1, <5>1, <3>5, <2>4, Zenon DEF x
      <4>2. CASE m # n
        <5>1. m \in 0 .. n - 1 /\ (m # 0 => m - 1 \in 0 .. n - 1)
          BY <2>2, <4>2
        <5>2. f[m] = Body(f, m)
          BY <3>2, <5>1 DEF Good
        <5>3. m # 0 => g[m - 1] = f[m - 1]
          BY <3>4, <5>1
        <5> QED BY <5>1, <5>2, <5>3, <3>4, Zenon
      <4> QED BY <4>1, <4>2
    <3>8. Good(g, n)
      BY <3>6, <3>7, Zenon DEF Good
    <3> QED BY <2>1, <3>8, Zenon
  <2> QED BY <2>3, <2>4
<1>3. L \in 0 .. L
  OBVIOUS
<1>4. \E f : f = [n \in 0 .. L |-> Body(f, n)]
  <2>1. PICK f : Good(f, L)
    BY <1>2, <1>3
  <2>2. f = [n \in 0 .. L |-> f[n]] /\ \A n \in 0 .. L : f[n] = Body(f, n)
    BY <2>1, Zenon DEF Good
  <2> QED BY <2>2, Zenon
<1> DEFINE h == CHOOSE f : f = [n \in 0 .. L |-> Body(f, n)]
<1>5. h = [n \in 0 .. L |-> Body(h, n)]
  BY <1>4, Zenon
<1>6. Number(digits, base) = h[L]
  BY Zenon DEF Number
<1> HIDE DEF h
<1>7. \A n \in 0 .. L : h[n] = Body(h, n)
  BY <1>5, Zenon
<1> HIDE DEF Bad
<1> DEFINE Off == {n \in 0 .. L : h[n] \notin W}
<1>8. Off = {}
  <2> SUFFICES ASSUME Off # {} PROVE FALSE
    OBVIOUS
  <2>0. Off \in SUBSET Nat
    OBVIOUS
  <2>1. PICK n \in Off : \A m \in Off : n <= m
    <3> HIDE DEF Off
    <3> QED BY <2>0, LeastOf
  <2>2. n \in 0 .. L
    BY <2>1
  <2>3. n # 0
    BY <1>7, <2>1, WordAssumption
  <2>4. n - 1 \in 0 .. L /\ n - 1 \notin Off
    BY <2>1, <2>2, <2>3
  <2>5. h[n] = (h[n - 1] * base + DigitValue[digits[n]]) % WORD
    BY <1>7, <2>2, <2>3
  <2>6. h[n] \in W
    BY <1>1, <2>2, <2>3, <2>4, <2>5
  <2> QED BY <2>1, <2>6
<1> QED BY <1>3, <1>6, <1>8

(* A sequence whose elements are all in a set is a sequence over it.       *)
LEMMA SeqOver ==
  ASSUME NEW R, NEW s \in Seq(R), NEW S, \A i \in 1 .. Len(s) : s[i] \in S
  PROVE  s \in Seq(S)
<1>1. s = [i \in 1 .. Len(s) |-> s[i]] /\ Len(s) \in Nat
  OBVIOUS
<1>2. s \in [1 .. Len(s) -> S]
  BY <1>1
<1> QED BY <1>1, <1>2

(* A piece of a text all of whose characters are in a set.                 *)
LEMMA PieceIn ==
  ASSUME NEW src \in Seq(STRING), NEW from \in 1 .. Len(src) + 1, NEW to \in from .. Len(src) + 1,
         NEW S, \A r \in from .. to - 1 : src[r] \in S
  PROVE  SubSeq(src, from, to - 1) \in Seq(S)
<1>1. Len(SubSeq(src, from, to - 1)) = to - from
  OBVIOUS
<1>2. \A i \in 1 .. to - from : SubSeq(src, from, to - 1)[i] = src[from + i - 1]
  OBVIOUS
<1>3. \A i \in 1 .. to - from : SubSeq(src, from, to - 1)[i] \in S
  BY <1>2
<1>4. SubSeq(src, from, to - 1) \in Seq(STRING)
  OBVIOUS
<1> QED BY <1>1, <1>3, <1>4, SeqOver

(* The kinds of characters a token may begin with exclude one another, so  *)
(* the order of the tests does not matter (lexer.c:54-115).                *)
LEMMA Kinds ==
  /\ Alpha \subseteq Alnum
  /\ Digit \subseteq Hex
  /\ Alpha \cap Digit = {}
  /\ DOMAIN Punctuation \cap Alnum = {}
  /\ \A c \in DOMAIN Punctuation : Punctuation[c] \in {"LPAREN", "RPAREN", "COMMA", "ASSIGN", "SEMICOLON"}
<1>1. DOMAIN Punctuation = {"(", ")", ",", "=", ";"}
  BY DEF Punctuation
<1>2. \A c \in DOMAIN Punctuation : Punctuation[c] \in {"LPAREN", "RPAREN", "COMMA", "ASSIGN", "SEMICOLON"}
  BY DEF Punctuation
<1>3. Alpha \cap Digit = {}
  BY SMTT(60) DEF Alpha, Digit, HexLow, HexUp
<1>4. DOMAIN Punctuation \cap Alnum = {}
  <2>1. \A c \in {"(", ")", ",", "=", ";"} : c \notin Digit
    BY DEF Digit
  <2>2. "(" \notin Alpha /\ ")" \notin Alpha /\ "," \notin Alpha /\ "=" \notin Alpha /\ ";" \notin Alpha
    BY Zenon DEF Alpha, HexLow, HexUp
  <2> QED BY <1>1, <2>1, <2>2 DEF Alnum
<1> QED BY <1>2, <1>3, <1>4 DEF Alnum, Hex

(* What the token's shape is, whatever its kind.                           *)
LEMMA TokFields ==
  ASSUME NEW type, NEW src, NEW from, NEW to, NEW value
  PROVE  LET t == Tok(type, src, from, to, value)
         IN t.type = type /\ t.text = SubSeq(src, from, to - 1) /\ t.value = value /\ t.next = to
BY DEF Tok

(* A token has a type, ends behind the place it was looked for, and behind *)
(* its own beginning unless it is the end of the text; the characters of   *)
(* an identifier are those of one; a number is a word (lexer.c:28-118).    *)
LEMMA TokenIs ==
  ASSUME NEW src \in Seq(STRING), NEW p \in 1 .. Len(src) + 1, NEW t, t = lexer_next(src, p)
  PROVE  /\ t.type \in TokenType
         /\ t.next \in p .. Len(src) + 1
         /\ t.type # "EOF" => t.next > p
         /\ t.type = "NUMBER" => t.value \in Word
         /\ t.type = "IDENTIFIER" =>
              \E i \in p .. t.next - 1 : /\ t.text = SubSeq(src, i, t.next - 1)
                                        /\ src[i] \in Alpha
                                        /\ \A r \in i .. t.next - 1 : src[r] \in Alnum
<1> DEFINE b == End(src, p, Blank)
<1>1. b \in p .. Len(src) + 1
  BY EndIs
<1>2. t = IF b > Len(src) THEN Tok("EOF", src, b, b, 0)
          ELSE CASE src[b] \in Alpha ->
                      Tok("IDENTIFIER", src, b, End(src, b, Alnum), 0)
                 [] src[b] \in Digit /\ HexPrefix(src, b) ->
                      Tok("NUMBER", src, b, End(src, b + 2, Hex), Number(SubSeq(src, b + 2, End(src, b + 2, Hex) - 1), 16))
                 [] src[b] \in Digit /\ ~HexPrefix(src, b) ->
                      Tok("NUMBER", src, b, End(src, b, Digit), Number(SubSeq(src, b, End(src, b, Digit) - 1), 10))
                 [] src[b] \in DOMAIN Punctuation ->
                      Tok(Punctuation[src[b]], src, b, b + 1, 0)
                 [] OTHER ->
                      Tok("ERROR", src, b, b + 1, 0)
  BY Zenon DEF lexer_next
<1> HIDE DEF b
<1>3. CASE b > Len(src)
  <2>1. t = Tok("EOF", src, b, b, 0)
    BY <1>2, <1>3
  <2>2. t.type = "EOF" /\ t.next = b
    BY <2>1, TokFields
  <2> QED BY <2>2, <1>1 DEF TokenType
<1>4. CASE b <= Len(src) /\ src[b] \in Alpha
  <2> DEFINE e == End(src, b, Alnum)
  <2>1. src[b] \notin Digit /\ src[b] \notin DOMAIN Punctuation /\ ~(b > Len(src))
    BY <1>1, <1>4, Kinds
  <2>2. t = Tok("IDENTIFIER", src, b, e, 0)
    BY <1>2, <1>4, <2>1
  <2>3. /\ e \in b .. Len(src) + 1
        /\ e = Len(src) + 1 \/ src[e] \notin Alnum
        /\ \A r \in b .. e - 1 : src[r] \in Alnum
    BY <1>1, EndIs
  <2> HIDE DEF e
  <2>4. t.type = "IDENTIFIER" /\ t.next = e /\ t.text = SubSeq(src, b, e - 1)
    BY <2>2, TokFields
  <2>5. e > b
    BY <1>1, <1>4, <2>3, Kinds
  <2>6. b \in p .. e - 1
    BY <1>1, <2>3, <2>5
  <2> QED BY <1>1, <1>4, <2>3, <2>4, <2>5, <2>6 DEF TokenType
<1>5. ASSUME b <= Len(src), NEW from \in b .. Len(src) + 1, NEW e \in from .. Len(src) + 1, e > b,
             NEW base \in Nat, \A r \in from .. e - 1 : src[r] \in Hex,
             t = Tok("NUMBER", src, b, e, Number(SubSeq(src, from, e - 1), base))
      PROVE  t.type = "NUMBER" /\ t.next \in p .. Len(src) + 1 /\ t.next > p /\ t.value \in Word
  <2>1. from \in 1 .. Len(src) + 1
    BY <1>1
  <2>2. SubSeq(src, from, e - 1) \in Seq(Hex)
    BY <1>5, <2>1, PieceIn
  <2>3. Number(SubSeq(src, from, e - 1), base) \in Word
    BY <2>2, <1>5, NumberIsWord, ValuesAssumption
  <2>4. t.type = "NUMBER" /\ t.next = e /\ t.value \in Word
    BY <1>5, <2>3, TokFields
  <2> QED BY <2>4, <1>1, <1>5
<1>6. CASE b <= Len(src) /\ src[b] \in Digit /\ HexPrefix(src, b)
  <2> DEFINE e == End(src, b + 2, Hex)
  <2>1. src[b] \notin Alpha /\ src[b] \notin DOMAIN Punctuation /\ ~(b > Len(src))
    BY <1>1, <1>6, Kinds DEF Alnum
  <2>2. t = Tok("NUMBER", src, b, e, Number(SubSeq(src, b + 2, e - 1), 16))
    BY <1>2, <1>6, <2>1
  <2>3. b + 2 \in b .. Len(src) + 1 /\ b + 2 \in 1 .. Len(src) + 1
    BY <1>1, <1>6 DEF HexPrefix
  <2>4. e \in b + 2 .. Len(src) + 1 /\ \A r \in b + 2 .. e - 1 : src[r] \in Hex
    BY <2>3, EndIs
  <2> HIDE DEF e
  <2>5. e > b
    BY <1>1, <2>4
  <2>6. t.type = "NUMBER" /\ t.next \in p .. Len(src) + 1 /\ t.next > p /\ t.value \in Word
    BY <1>5, <1>6, <2>2, <2>3, <2>4, <2>5
  <2> QED BY <2>6 DEF TokenType
<1>7. CASE b <= Len(src) /\ src[b] \in Digit /\ ~HexPrefix(src, b)
  <2> DEFINE e == End(src, b, Digit)
  <2>1. src[b] \notin Alpha /\ src[b] \notin DOMAIN Punctuation /\ ~(b > Len(src))
    BY <1>1, <1>7, Kinds DEF Alnum
  <2>2. t = Tok("NUMBER", src, b, e, Number(SubSeq(src, b, e - 1), 10))
    BY <1>2, <1>7, <2>1
  <2>3. /\ e \in b .. Len(src) + 1
        /\ e = Len(src) + 1 \/ src[e] \notin Digit
        /\ \A r \in b .. e - 1 : src[r] \in Digit
    BY <1>1, EndIs
  <2> HIDE DEF e
  <2>4. e > b /\ \A r \in b .. e - 1 : src[r] \in Hex
    BY <1>1, <1>7, <2>3, Kinds
  <2>5. b \in b .. Len(src) + 1
    BY <1>1, <1>7
  <2>6. t.type = "NUMBER" /\ t.next \in p .. Len(src) + 1 /\ t.next > p /\ t.value \in Word
    BY <1>5, <1>7, <2>2, <2>3, <2>4, <2>5
  <2> QED BY <2>6 DEF TokenType
<1>8. CASE b <= Len(src) /\ src[b] \in DOMAIN Punctuation
  <2>1. src[b] \notin Alpha /\ src[b] \notin Digit /\ ~(b > Len(src))
    BY <1>1, <1>8, Kinds DEF Alnum
  <2>2. t = Tok(Punctuation[src[b]], src, b, b + 1, 0)
    BY <1>2, <1>8, <2>1
  <2>3. t.type = Punctuation[src[b]] /\ t.next = b + 1
    BY <2>2, TokFields
  <2>4. t.type \in {"LPAREN", "RPAREN", "COMMA", "ASSIGN", "SEMICOLON"}
    BY <1>8, <2>3, Kinds
  <2> QED BY <1>1, <1>8, <2>3, <2>4 DEF TokenType
<1>9. CASE b <= Len(src) /\ src[b] \notin Alpha /\ src[b] \notin Digit /\ src[b] \notin DOMAIN Punctuation
  <2>1. t = Tok("ERROR", src, b, b + 1, 0)
    BY <1>1, <1>2, <1>9
  <2>2. t.type = "ERROR" /\ t.next = b + 1
    BY <2>1, TokFields
  <2> QED BY <1>1, <1>9, <2>2 DEF TokenType
<1>10. b > Len(src) \/ b <= Len(src)
  BY <1>1
<1> QED BY <1>3, <1>4, <1>6, <1>7, <1>8, <1>9, <1>10, Zenon

-----------------------------------------------------------------------------
(* The interpreter.                                                        *)

(* Reading on from a token of the script gives a token of the script that  *)
(* ends no earlier, and later unless the script is at its end.             *)
LEMMA ReadOn ==
  ASSUME script \in Script, NEW t \in Tokens(script)
  PROVE  /\ t.type \in TokenType
         /\ t.next \in 1 .. Len(script) + 1
         /\ t.type = "NUMBER" => t.value \in Word
         /\ t.type = "IDENTIFIER" => t.text \in Name
         /\ Next1(t) \in Tokens(script)
         /\ Next1(t).next \in t.next .. Len(script) + 1
         /\ Next1(t).type # "EOF" => Next1(t).next > t.next
<1>1. script \in Seq(STRING)
  BY DEF Script
<1>2. PICK p \in 1 .. Len(script) + 1 : t = lexer_next(script, p)
  BY DEF Tokens
<1>3. /\ t.type \in TokenType
      /\ t.next \in p .. Len(script) + 1
      /\ t.type = "NUMBER" => t.value \in Word
  BY <1>1, <1>2, TokenIs
<1>4. t.next \in 1 .. Len(script) + 1
  BY <1>1, <1>3
<1> DEFINE u == Next1(t)
<1>5. u = lexer_next(script, t.next)
  BY DEF Next1
<1> HIDE DEF u
<1>6. u \in Tokens(script)
  BY <1>4, <1>5 DEF Tokens
<1>7. u.next \in t.next .. Len(script) + 1 /\ (u.type # "EOF" => u.next > t.next)
  BY <1>1, <1>4, <1>5, TokenIs
<1> QED BY <1>3, <1>4, <1>6, <1>7 DEF Script, u

(* Passing an expression, or a token of a given type, stays among the      *)
(* tokens and does not go back.                                            *)
LEMMA PassOn ==
  ASSUME script \in Script, NEW t \in Tokens(script), NEW type
  PROVE  /\ After(t) \in Tokens(script) /\ After(t).next \in t.next .. Len(script) + 1
         /\ Past(t, type) \in Tokens(script) /\ Past(t, type).next \in t.next .. Len(script) + 1
<1>1. t.next \in 1 .. Len(script) + 1 /\ script \in Seq(STRING)
  BY ReadOn DEF Script
<1>2. t.next \in t.next .. Len(script) + 1
  BY <1>1
<1> QED BY <1>2, ReadOn DEF After, Past

(* An expression has a word for its value: a number that was wrapped, a    *)
(* stored value, or 0 (serpentc.c:14-28).                                   *)
LEMMA ValueIsWord ==
  ASSUME SymbolsTypeOK, script \in Script, NEW t \in Tokens(script)
  PROVE  Value(t) \in Word
<1>1. 0 \in Word
  BY SymbolsAssumption
<1>2. symbol_get(t.text) \in Word
  <2>1. CASE Found(t.text)
    <3>1. Holding(t.text) \in SUBSET Slot /\ Holding(t.text) # {}
      BY <2>1 DEF Found, Holding
    <3>2. First(Holding(t.text)) \in Slot
      BY <3>1, FirstIn
    <3> QED BY <2>1, <3>2 DEF symbol_get, SymbolsTypeOK
  <2>2. CASE ~Found(t.text)
    BY <2>2, <1>1 DEF symbol_get
  <2> QED BY <2>1, <2>2
<1>3. CASE t.type = "NUMBER"
  <2>1. Value(t) = t.value
    BY <1>3 DEF Value, Is
  <2> QED BY <1>3, <2>1, ReadOn
<1>4. CASE t.type = "IDENTIFIER"
  <2>1. Value(t) = symbol_get(t.text)
    BY <1>4 DEF Value, Is
  <2> QED BY <1>2, <2>1
<1>5. CASE t.type # "NUMBER" /\ t.type # "IDENTIFIER"
  <2>1. Value(t) = 0
    BY <1>5 DEF Value, Is
  <2> QED BY <1>1, <2>1
<1> QED BY <1>3, <1>4, <1>5

(* symbol_set leaves a table of names and words (builtins.c:31-56).        *)
LEMMA SetType ==
  ASSUME SymbolsTypeOK, NEW n \in Name, NEW v \in Word, symbol_set(n, v)
  PROVE  SymbolsTypeOK'
<1>1. CASE ~CanSet(n)
  BY <1>1 DEF symbol_set, SymbolsTypeOK
<1>2. CASE CanSet(n)
  <2>1. /\ Target(n) \in Slot
        /\ symbols' = [symbols EXCEPT ![Target(n)] = [is_set |-> TRUE, name |-> n, value |-> v]]
    BY <1>2, SetEffect
  <2> QED BY <2>1 DEF SymbolsTypeOK
<1> QED BY <1>1, <1>2

(* What a turn of the interpreter's loops leaves (serpentc.c:30-93).       *)
LEMMA EvalStepType ==
  ASSUME EvalTypeOK, EvalStep
  PROVE  /\ EvalTypeOK'
         /\ UNCHANGED symbols \/ \E n \in Name, v \in Word : symbol_set(n, v)
<1>1. SymbolsTypeOK /\ script \in Script /\ tok \in Tokens(script) /\ Len(args) <= MaxArgs
      /\ args \in Seq(Word) /\ out \in Seq(Messages)
  BY DEF EvalTypeOK
<1>2. ASSUME Assignment
      PROVE  EvalTypeOK' /\ \E n \in Name, v \in Word : symbol_set(n, v)
  <2> DEFINE sign == Next1(tok)
             e == Next1(sign)
  <2>1. sign \in Tokens(script)
    BY <1>1, ReadOn
  <2>2. e \in Tokens(script)
    BY <1>1, <2>1, ReadOn
  <2>3. tok.text \in Name
    BY <1>1, <1>2, ReadOn DEF Assignment, Is
  <2>4. Value(e) \in Word
    BY <1>1, <2>2, ValueIsWord
  <2>5. Past(After(e), "SEMICOLON") \in Tokens(script)
    BY <1>1, <2>2, PassOn
  <2>6. symbol_set(tok.text, Value(e)) /\ tok' = Past(After(e), "SEMICOLON")
        /\ out' = Append(out, "assigned") /\ UNCHANGED <<script, pc, args>>
    BY <1>2 DEF Assignment
  <2> HIDE DEF e
  <2>7. SymbolsTypeOK'
    BY <1>1, <2>3, <2>4, <2>6, SetType
  <2>8. out' \in Seq(Messages)
    BY <1>1, <2>6 DEF Messages
  <2>9. EvalTypeOK'
    BY <2>5, <2>6, <2>7, <2>8 DEF EvalTypeOK
  <2> QED BY <2>3, <2>4, <2>6, <2>9
<1>3. ASSUME Call
      PROVE  EvalTypeOK' /\ UNCHANGED symbols
  <2>1. Next1(Next1(tok)) \in Tokens(script)
    BY <1>1, ReadOn
  <2>2. pc' = "args" /\ args' = << >> /\ tok' = Next1(Next1(tok)) /\ UNCHANGED <<script, symbols, out>>
    BY <1>3 DEF Call
  <2> QED BY <1>1, <2>1, <2>2 DEF EvalTypeOK, SymbolsTypeOK, MaxArgs
<1>4. ASSUME Argument
      PROVE  EvalTypeOK' /\ UNCHANGED symbols
  <2>1. Value(tok) \in Word
    BY <1>1, ValueIsWord
  <2>2. Past(After(tok), "COMMA") \in Tokens(script)
    BY <1>1, PassOn
  <2>3. /\ args' = IF Len(args) < MaxArgs THEN Append(args, Value(tok)) ELSE args
        /\ tok' = Past(After(tok), "COMMA")
        /\ pc' \in {"args", "dispatch"}
        /\ UNCHANGED <<script, symbols, out>>
    BY <1>4 DEF Argument
  <2>4. args' \in Seq(Word) /\ Len(args') <= MaxArgs
    BY <1>1, <2>1, <2>3 DEF MaxArgs
  <2> QED BY <2>2, <2>3, <2>4 DEF EvalTypeOK, SymbolsTypeOK
<1>5. ASSUME Dispatch
      PROVE  EvalTypeOK' /\ UNCHANGED symbols
  <2>1. Past(Past(tok, "RPAREN"), "SEMICOLON") \in Tokens(script)
    BY <1>1, PassOn
  <2>2. /\ tok' = Past(Past(tok, "RPAREN"), "SEMICOLON")
        /\ pc' = "top"
        /\ out' = Append(out, "executed") \/ out' = Append(out, "unknown")
        /\ UNCHANGED <<script, symbols, args>>
    BY <1>5 DEF Dispatch
  <2>3. out' \in Seq(Messages)
    BY <1>1, <2>2 DEF Messages
  <2> QED BY <2>1, <2>2, <2>3 DEF EvalTypeOK, SymbolsTypeOK
<1>6. ASSUME Skip
      PROVE  EvalTypeOK' /\ UNCHANGED symbols
  <2>1. Next1(tok) \in Tokens(script) /\ Next1(Next1(tok)) \in Tokens(script)
    BY <1>1, ReadOn
  <2>2. tok' \in {Next1(tok), Next1(Next1(tok))} /\ UNCHANGED <<script, pc, symbols, args, out>>
    BY <1>6 DEF Skip
  <2> QED BY <2>1, <2>2 DEF EvalTypeOK, SymbolsTypeOK
<1>7. ASSUME Return
      PROVE  EvalTypeOK' /\ UNCHANGED symbols
  <2>1. pc' = "idle" /\ UNCHANGED <<script, tok, symbols, args, out>>
    BY <1>7 DEF Return
  <2> QED BY <2>1 DEF EvalTypeOK, SymbolsTypeOK
<1> QED BY <1>2, <1>3, <1>4, <1>5, <1>6, <1>7 DEF EvalStep

(* serpentc_init, and the call of serpentc_eval.                           *)
LEMMA InitType == serpentc_init => EvalTypeOK
<1> SUFFICES ASSUME serpentc_init PROVE EvalTypeOK
  OBVIOUS
<1>1. SymbolsTypeOK
  BY InitInv DEF serpentc_init, SymbolsInv
<1>2. /\ script = << >> /\ pc = "idle" /\ tok = lexer_next(<< >>, 1)
      /\ args = << >> /\ out = << >>
  BY DEF serpentc_init
<1>3. tok \in Tokens(script) /\ Tokens(script) = {tok}
  BY <1>2 DEF Tokens
<1>4. << >> \in Seq(STRING) /\ 1 \in 1 .. Len(<< >>) + 1
  OBVIOUS
<1>5. tok.type # "IDENTIFIER"
  <2>1. tok.next \in 1 .. Len(<< >>) + 1 /\ (tok.type # "EOF" => tok.next > 1)
    BY <1>2, <1>4, TokenIs
  <2>2. Len(<< >>) = 0
    OBVIOUS
  <2> QED BY <2>1, <2>2
<1>6. script \in Script
  BY <1>2, <1>3, <1>4, <1>5 DEF Script
<1> QED BY <1>1, <1>2, <1>3, <1>6 DEF EvalTypeOK, MaxArgs

(* The call of serpentc_eval leaves the state well typed, whatever the     *)
(* text is (serpentc.c:30-38).                                             *)
LEMMA EvalType ==
  ASSUME EvalTypeOK, NEW text \in Script, Eval(text)
  PROVE  EvalTypeOK'
<1>1. /\ pc' = "top" /\ script' = text /\ tok' = lexer_next(text, 1)
      /\ UNCHANGED <<symbols, args, out>>
  BY DEF Eval
<1>2. text \in Seq(STRING) /\ 1 \in 1 .. Len(text) + 1
  BY DEF Script
<1>3. tok' \in Tokens(script')
  BY <1>1, <1>2 DEF Tokens
<1> QED BY <1>1, <1>3 DEF EvalTypeOK, SymbolsTypeOK

(* What other parts of the kernel do does not touch the interpreter.       *)
LEMMA StutterType == EvalTypeOK /\ UNCHANGED scVars => EvalTypeOK'
<1> SUFFICES ASSUME EvalTypeOK, UNCHANGED scVars PROVE EvalTypeOK'
  OBVIOUS
<1>1. UNCHANGED <<symbols, script, pc, tok, args, out>>
  BY DEF scVars, evalVars
<1> QED BY <1>1 DEF EvalTypeOK, SymbolsTypeOK

(* Whatever texts it is given, the interpreter's state is well typed: the  *)
(* token is one of the text, no more than eight arguments are kept, and    *)
(* every value is a word (serpentc.c:23-93).                               *)
THEOREM EvalTypeAlways == SerpentCSpec => []EvalTypeOK
<1>1. EvalTypeOK /\ [(\E text \in Script : Eval(text)) \/ EvalStep]_scVars => EvalTypeOK'
  BY EvalType, EvalStepType, StutterType
<1> QED BY InitType, <1>1, PTL DEF SerpentCSpec

(* What the interpreter does to the symbol table are assignments, so that  *)
(* what holds of the table for any assignments holds whatever runs         *)
(* (serpentc.c:45-49, builtins.c:31-68).                                   *)
THEOREM SerpentCRunsSymbols == SerpentCSpec => SymbolsSpec
<1>1. serpentc_init => builtins_init
  BY DEF serpentc_init
<1>2. EvalTypeOK /\ [(\E text \in Script : Eval(text)) \/ EvalStep]_scVars
        => [\E n \in Name, v \in Word : symbol_set(n, v)]_symbols
  <2> SUFFICES ASSUME EvalTypeOK, [(\E text \in Script : Eval(text)) \/ EvalStep]_scVars
               PROVE  [\E n \in Name, v \in Word : symbol_set(n, v)]_symbols
    OBVIOUS
  <2>1. CASE \E text \in Script : Eval(text)
    BY <2>1 DEF Eval
  <2>2. CASE EvalStep
    BY <2>2, EvalStepType
  <2>3. CASE UNCHANGED scVars
    BY <2>3 DEF scVars
  <2> QED BY <2>1, <2>2, <2>3
<1> QED BY <1>1, <1>2, EvalTypeAlways, PTL DEF SerpentCSpec, SymbolsSpec

(* Every turn leaves less to do.                                           *)
LEMMA StepAdvances ==
  ASSUME EvalTypeOK, EvalTypeOK', EvalStep
  PROVE  Remaining' < Remaining
<1> DEFINE L == Len(script) + 1
           Left(t, s) == 6 * (L - t.next) + s
<1>1. /\ script \in Script /\ tok \in Tokens(script) /\ tok.next \in 1 .. L /\ L \in Nat
      /\ pc \in {"idle", "top", "args", "dispatch"} /\ pc' \in {"idle", "top", "args", "dispatch"}
      /\ tok.type \in TokenType
  BY ReadOn DEF EvalTypeOK, Script
<1>2. script' = script /\ tok' \in Tokens(script)
  BY DEF EvalStep, Assignment, Call, Argument, Dispatch, Skip, Return, EvalTypeOK
<1>3. tok'.next \in 1 .. L
  BY <1>1, <1>2, ReadOn
<1> DEFINE Run(t) == t.type \notin {"EOF", "ERROR"}
<1>4. /\ Remaining = Left(tok, Stage) /\ Remaining' = Left(tok', Stage')
      /\ Stage \in 0 .. 5 /\ Stage' \in 0 .. 5
      /\ pc = "args" => Stage = IF Run(tok) THEN 5 ELSE 4
      /\ pc = "dispatch" => Stage = 3
      /\ pc = "top" => Stage = IF Run(tok) THEN 2 ELSE 1
      /\ pc' = "args" => Stage' = IF Run(tok') THEN 5 ELSE 4
      /\ pc' = "dispatch" => Stage' = 3
      /\ pc' = "top" => Stage' = IF Run(tok') THEN 2 ELSE 1
      /\ pc' = "idle" => Stage' = 0
  <2>1. /\ Stage \in 0 .. 5
        /\ pc = "args" => Stage = IF Run(tok) THEN 5 ELSE 4
        /\ pc = "dispatch" => Stage = 3
        /\ pc = "top" => Stage = IF Run(tok) THEN 2 ELSE 1
    BY <1>1 DEF Stage, Running
  <2>2. /\ Stage' \in 0 .. 5
        /\ pc' = "args" => Stage' = IF Run(tok') THEN 5 ELSE 4
        /\ pc' = "dispatch" => Stage' = 3
        /\ pc' = "top" => Stage' = IF Run(tok') THEN 2 ELSE 1
        /\ pc' = "idle" => Stage' = 0
    BY <1>1 DEF Stage, Running
  <2>3. Remaining = Left(tok, Stage)
    BY <1>1, <2>1, SMTT(30) DEF Remaining
  <2>4. Remaining' = Left(tok', Stage')
    BY <1>1, <1>2, <1>3, <2>2, SMTT(30) DEF Remaining
  <2> QED BY <2>1, <2>2, <2>3, <2>4
<1> HIDE DEF L
(* Farther on, or no farther back and at an earlier stage.                 *)
<1>5. tok'.next > tok.next => Remaining' < Remaining
  BY <1>1, <1>3, <1>4
<1>6. tok'.next >= tok.next /\ Stage' < Stage => Remaining' < Remaining
  BY <1>1, <1>3, <1>4
<1> HIDE DEF Left
<1>7. ASSUME NEW t \in Tokens(script)
      PROVE  /\ Next1(t) \in Tokens(script) /\ t.next \in Nat /\ Next1(t).next \in Nat
             /\ Next1(t).next >= t.next
             /\ Next1(t).type # "EOF" => Next1(t).next > t.next
  <2>1. t.next \in 1 .. L /\ Next1(t).next \in t.next .. L
    BY <1>1, ReadOn DEF L
  <2> QED BY <2>1, <1>1, ReadOn
<1>8. ASSUME NEW t \in Tokens(script), NEW type
      PROVE  /\ After(t) \in Tokens(script) /\ After(t).next \in Nat /\ After(t).next >= t.next
             /\ Past(t, type) \in Tokens(script) /\ Past(t, type).next \in Nat /\ Past(t, type).next >= t.next
  <2>1. /\ After(t) \in Tokens(script) /\ After(t).next \in t.next .. L
        /\ Past(t, type) \in Tokens(script) /\ Past(t, type).next \in t.next .. L
    BY <1>1, PassOn DEF L
  <2>2. t.next \in 1 .. L
    BY <1>1, ReadOn DEF L
  <2> QED BY <1>1, <2>1, <2>2
<1>9. CASE Assignment
  <2> DEFINE sign == Next1(tok)
             e == Next1(sign)
  <2>1. sign.type = "ASSIGN" /\ tok' = Past(After(e), "SEMICOLON")
    BY <1>9 DEF Assignment, Is
  <2>2. sign \in Tokens(script) /\ e \in Tokens(script) /\ After(e) \in Tokens(script)
    BY <1>1, <1>7, <1>8
  <2>3. sign.next > tok.next /\ e.next >= sign.next
    BY <1>1, <1>7, <2>1, <2>2
  <2>4. After(e).next >= e.next /\ tok'.next >= After(e).next
    BY <1>8, <2>1, <2>2
  <2>5. tok'.next > tok.next
    <3>1. sign.next \in Nat /\ e.next \in Nat /\ After(e).next \in Nat /\ tok'.next \in Nat /\ tok.next \in Nat
      BY <1>1, <1>2, <1>7, <2>2
    <3> HIDE DEF e, sign
    <3> QED BY <2>3, <2>4, <3>1
  <2> QED BY <1>5, <2>5
<1>10. CASE Call
  <2> DEFINE paren == Next1(tok)
  <2>1. paren.type = "LPAREN" /\ tok' = Next1(paren)
    BY <1>10 DEF Call, Is
  <2>2. paren \in Tokens(script) /\ paren.next > tok.next /\ tok'.next >= paren.next
    BY <1>1, <1>7, <2>1
  <2>3. tok.next \in Nat /\ paren.next \in Nat /\ tok'.next \in Nat
    BY <1>1, <1>2, <1>7, <2>2
  <2> HIDE DEF paren
  <2>4. tok'.next > tok.next
    BY <2>2, <2>3
  <2> QED BY <1>5, <2>4
<1>11. CASE Argument
  <2> DEFINE a == After(tok)
  <2>1. /\ pc = "args" /\ tok.type \notin {"RPAREN", "EOF", "ERROR"}
        /\ tok' = Past(a, "COMMA")
        /\ pc' = IF a.type \in {"COMMA", "RPAREN"} THEN "args" ELSE "dispatch"
    BY <1>11 DEF Argument, InList
  <2>2. a \in Tokens(script) /\ a.next >= tok.next /\ tok'.next >= a.next
    BY <1>1, <1>8, <2>1
  <2>3. tok.next \in Nat /\ a.next \in Nat /\ tok'.next \in Nat
    BY <1>1, <1>2, <1>7, <2>2
  <2>4. a = IF tok.type \in {"NUMBER", "IDENTIFIER"} THEN Next1(tok) ELSE tok
    BY DEF After
  <2>5. tok' = IF a.type = "COMMA" THEN Next1(a) ELSE a
    BY <2>1 DEF Past, Is
  <2> HIDE DEF a
  <2>6. tok'.next >= tok.next
    BY <2>2, <2>3
  <2>7. CASE a.type \notin {"COMMA", "RPAREN"}
    BY <1>4, <1>6, <2>1, <2>6, <2>7
  <2>8. CASE a.type \in {"COMMA", "RPAREN"} /\ tok.type \in {"NUMBER", "IDENTIFIER"}
    <3>1. a.next > tok.next
      BY <1>1, <1>7, <2>4, <2>8
    <3>2. tok'.next > tok.next
      BY <2>2, <2>3, <3>1
    <3> QED BY <1>5, <3>2
  <2>9. CASE a.type \in {"COMMA", "RPAREN"} /\ tok.type \notin {"NUMBER", "IDENTIFIER"}
    <3>1. tok' = Next1(tok) /\ pc' = "args"
      BY <2>1, <2>4, <2>5, <2>9
    <3>2. CASE tok'.type = "EOF"
      BY <1>4, <1>6, <2>1, <2>6, <3>1, <3>2
    <3>3. CASE tok'.type # "EOF"
      BY <1>1, <1>5, <1>7, <3>1, <3>3
    <3> QED BY <3>2, <3>3
  <2> QED BY <2>7, <2>8, <2>9
<1>12. CASE Dispatch
  <2> DEFINE a == Past(tok, "RPAREN")
  <2>1. /\ pc \in {"args", "dispatch"} /\ pc' = "top" /\ tok' = Past(a, "SEMICOLON")
    BY <1>12 DEF Dispatch
  <2>2. a \in Tokens(script) /\ a.next >= tok.next /\ tok'.next >= a.next
    BY <1>1, <1>8, <2>1
  <2>3. tok.next \in Nat /\ a.next \in Nat /\ tok'.next \in Nat
    BY <1>1, <1>2, <1>7, <2>2
  <2> HIDE DEF a
  <2>4. tok'.next >= tok.next
    BY <2>2, <2>3
  <2>5. Stage' < Stage
    BY <1>4, <2>1
  <2> QED BY <1>6, <2>4, <2>5
<1>13. CASE Skip
  <2> DEFINE a == Next1(tok)
  <2>1. pc = "top" /\ pc' = "top" /\ Run(tok) /\ tok' \in {a, Next1(a)}
    BY <1>13 DEF Skip, Running
  <2>2. /\ a \in Tokens(script) /\ tok'.next >= a.next /\ a.next >= tok.next
        /\ a.next > tok.next \/ a.type = "EOF"
    BY <1>1, <1>7, <2>1
  <2>3. tok.next \in Nat /\ a.next \in Nat /\ tok'.next \in Nat
    BY <1>1, <1>2, <1>7, <2>2
  <2>4. tok'.type # "EOF" => tok'.next > tok.next
    BY <1>1, <1>7, <2>1, <2>2, <2>3
  <2> HIDE DEF a
  <2>5. tok'.next >= tok.next
    BY <2>2, <2>3
  <2>6. CASE tok'.type = "EOF"
    BY <1>4, <1>6, <2>1, <2>5, <2>6
  <2>7. CASE tok'.type # "EOF"
    BY <1>5, <2>4, <2>7
  <2> QED BY <2>6, <2>7
<1>14. CASE Return
  <2>1. pc = "top" /\ pc' = "idle" /\ tok' = tok
    BY <1>14 DEF Return
  <2> QED BY <1>1, <1>4, <1>6, <2>1
<1> QED BY <1>9, <1>10, <1>11, <1>12, <1>13, <1>14 DEF EvalStep

(* Every turn of the interpreter's loops leaves less to do, whatever the   *)
(* text is, so every evaluation ends: what is left is a number that cannot *)
(* fall for ever (serpentc.c:38-92).                                       *)
THEOREM EvalAdvancesAlways == SerpentCSpec => EvalAdvances
<1>1. EvalTypeOK /\ [(\E text \in Script : Eval(text)) \/ EvalStep]_scVars
        => [EvalStep => Remaining' < Remaining]_scVars
  BY EvalStepType, StepAdvances
<1> QED BY <1>1, EvalTypeAlways, PTL DEF SerpentCSpec, EvalAdvances

=============================================================================
