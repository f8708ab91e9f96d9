---------------------------- MODULE Environment ----------------------------
(***************************************************************************)
(* What the symbol table of SerpentC promises: a map from names to values  *)
(* with room for a fixed number of names, each of a bounded length, from   *)
(* which nothing is ever removed.                                          *)
(***************************************************************************)
EXTENDS Integers, Sequences, FiniteSets

CONSTANTS Names, Values, Room, MaxName

VARIABLE env     \* a function from the names that are set to their values

EnvInit == \E D \in SUBSET Names : env \in [D -> Values]

Short(n) == Len(n) \in 1 .. MaxName - 1

HasRoom(n) == n \in DOMAIN env \/ Cardinality(DOMAIN env) < Room

(* A name is given a new value; nothing else changes.                      *)
Assign(n) ==
  /\ Short(n)
  /\ HasRoom(n)
  /\ env' \in [DOMAIN env \cup {n} -> Values]
  /\ \A m \in DOMAIN env \ {n} : env'[m] = env[m]

EnvNext == env' # env /\ \E n \in Names : Assign(n)

EnvSpec == EnvInit /\ [][EnvNext]_env
=============================================================================
