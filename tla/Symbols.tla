------------------------------ MODULE Symbols ------------------------------
(***************************************************************************)
(* The symbol table of SerpentC, kernel/serpentc/builtins.c: slots found   *)
(* by linear search, filled from the first one up and never emptied.  A    *)
(* name is the sequence of its characters.                                 *)
(***************************************************************************)
EXTENDS Integers, Sequences, FiniteSets

CONSTANTS
  SERPENTC_MAX_VARS,   \* slots (32)
  SERPENTC_MAX_NAME,   \* bytes of a name, the final NUL included (32)
  Name,                \* the identifiers scripts may use, of any length
  Word,                \* the values of a uint32_t
  Predefined           \* <<name, value>> of each colour constant

Slot == 0 .. SERPENTC_MAX_VARS - 1

MutAccepts(n) == Len(n) \in 1 .. SERPENTC_MAX_NAME     \* no byte for the NUL
Accepts(n) == Len(n) \in 1 .. SERPENTC_MAX_NAME - 1

ASSUME SymbolsAssumption ==
  /\ SERPENTC_MAX_VARS \in Nat
  /\ SERPENTC_MAX_NAME \in Nat
  /\ \A n \in Name : n \in Seq(STRING)
  /\ << >> \in Name
  /\ 0 \in Word

(* The six colours fit and are different names.                            *)
ASSUME PredefinedAssumption ==
  /\ Predefined \in Seq(Name \X Word)
  /\ Len(Predefined) <= SERPENTC_MAX_VARS
  /\ \A i \in 1 .. Len(Predefined) : Accepts(Predefined[i][1])
  /\ \A i, j \in 1 .. Len(Predefined) : Predefined[i][1] = Predefined[j][1] => i = j

VARIABLE symbols

Empty == [is_set |-> FALSE, name |-> << >>, value |-> 0]

SymbolsTypeOK == symbols \in [Slot -> [is_set : BOOLEAN, name : Name, value : Word]]

(* The slots that hold name n; those that are empty.                       *)
Holding(n) == {i \in Slot : symbols[i].is_set /\ symbols[i].name = n}
Free == {i \in Slot : ~symbols[i].is_set}

First(S) == CHOOSE i \in S : \A j \in S : i <= j

(* builtins_init: the table is emptied and each colour takes a slot.       *)
builtins_init ==
  symbols = [i \in Slot |->
               IF i < Len(Predefined)
               THEN [is_set |-> TRUE, name |-> Predefined[i + 1][1], value |-> Predefined[i + 1][2]]
               ELSE Empty]

(* symbol_set returns 1.                                                   *)
CanSet(n) == Accepts(n) /\ (Holding(n) # {} \/ Free # {})

MutSymbolSet(n, v) ==    \* an empty slot is taken without a search
  /\ IF Accepts(n) /\ Free # {}
     THEN symbols' = [symbols EXCEPT ![First(Free)] = [is_set |-> TRUE, name |-> n, value |-> v]]
     ELSE UNCHANGED symbols
symbol_set(n, v) ==
  IF ~CanSet(n) THEN UNCHANGED symbols
  ELSE IF Holding(n) # {}
       THEN symbols' = [symbols EXCEPT ![First(Holding(n))].value = v]
       ELSE symbols' = [symbols EXCEPT ![First(Free)] = [is_set |-> TRUE, name |-> n, value |-> v]]

(* symbol_get, and the 0 parse_expression makes of a failure.              *)
Found(n) == Accepts(n) /\ Holding(n) # {}
symbol_get(n) == IF Found(n) THEN symbols[First(Holding(n))].value ELSE 0

-----------------------------------------------------------------------------
(* The table on its own, for any sequence of calls.                        *)

SymbolsSpec == builtins_init /\ [][\E n \in Name, v \in Word : symbol_set(n, v)]_symbols

(* No name is in two slots: a second copy would keep the old value alive.  *)
OneSlotEach ==
  \A i, j \in Slot :
    symbols[i].is_set /\ symbols[j].is_set /\ symbols[i].name = symbols[j].name => i = j

(* Every stored name fits its 32 bytes with the final NUL.                 *)
NamesFit == \A i \in Slot : symbols[i].is_set => Accepts(symbols[i].name)

SymbolsInv == SymbolsTypeOK /\ OneSlotEach /\ NamesFit

(* The table as a map.                                                     *)
Defined == {n \in Name : Found(n)}
Abstract == INSTANCE Environment WITH
              Names <- Name, Values <- Word,
              Room <- SERPENTC_MAX_VARS, MaxName <- SERPENTC_MAX_NAME,
              env <- [n \in Defined |-> symbol_get(n)]

(* What an assignment changes is the value of its own name, for as long as *)
(* the machine runs (builtins.c:31-68).                                    *)
ImplementsMap == Abstract!EnvSpec

(* An assignment is refused only when the name is too long or when as many *)
(* names as there are slots have a value (builtins.c:32, 42-55).           *)
FailsOnlyWhenFull ==
  \A n \in Name : CanSet(n) <=> Abstract!Short(n) /\ Abstract!HasRoom(n)
=============================================================================
