------------------------------ MODULE LoopProofs ------------------------------
(***************************************************************************)
(* Lemmas about loops, for the other modules of proofs: what a function    *)
(* defined by recursion over numbers computes, which is what a loop does   *)
(* that counts.  Such a function exists because one can be built step by   *)
(* step (Recursion), and what it satisfies follows from what it hands on   *)
(* (HandedOn).                                                             *)
(***************************************************************************)
EXTENDS Integers, Sequences, SequencesExt, SequenceTheorems, WellFoundedInduction, TLAPS

(* A set of numbers has a least one.                                       *)
LEMMA LeastOf ==
  ASSUME NEW S \in SUBSET Nat, S # {}
  PROVE  \E i \in S : \A j \in S : i <= j
<1> DEFINE R == OpToRel(<, Nat)
<1>1. \A x, y \in Nat : x < y => <<x, y>> \in R
  BY DEF OpToRel
<1>2. IsWellFoundedOn(R, Nat)
  BY NatLessThanWellFounded
<1> HIDE DEF R
<1>3. PICK x \in S : \A y \in S : <<y, x>> \notin R
  BY <1>2, WFMin
<1>4. ASSUME NEW y \in S
      PROVE  x <= y
  <2>1. x \in Nat /\ y \in Nat
    OBVIOUS
  <2>2. ~(y < x)
    BY <1>1, <1>3, <2>1
  <2> QED BY <2>1, <2>2
<1> QED BY <1>4

(* What holds of a number when it holds of all smaller ones holds of all.  *)
LEMMA FromSmaller ==
  ASSUME NEW T, \A n \in Nat : (\A m \in Nat : m < n => m \in T) => n \in T
  PROVE  \A n \in Nat : n \in T
<1> DEFINE Bad == {n \in Nat : n \notin T}
<1>1. Bad \in SUBSET Nat
  OBVIOUS
<1>2. ASSUME Bad # {} PROVE FALSE
  <2>1. PICK n \in Bad : \A m \in Bad : n <= m
    <3> HIDE DEF Bad
    <3> QED BY <1>1, <1>2, LeastOf
  <2>2. ASSUME NEW m \in Nat, m < n
        PROVE  m \in T
    <3>1. ~(n <= m)
      BY <2>1, <2>2
    <3> QED BY <2>1, <3>1
  <2> QED BY <2>1, <2>2
<1> QED BY <1>2

(* The same up to a number, from each to the next.                         *)
LEMMA HandedOn ==
  ASSUME NEW N \in Nat, NEW T, 0 \in T, \A n \in 1 .. N : n - 1 \in T => n \in T
  PROVE  \A n \in 0 .. N : n \in T
<1> DEFINE U == {n \in Nat : n <= N => n \in T}
<1>1. ASSUME NEW n \in Nat, \A m \in Nat : m < n => m \in U
      PROVE  n \in U
  <2>1. CASE n = 0
    BY <2>1
  <2>2. CASE n # 0
    <3>1. n - 1 \in Nat /\ n - 1 < n
      BY <2>2
    <3>2. n - 1 \in U
      BY <1>1, <3>1
    <3> QED BY <2>2, <3>2
  <2> QED BY <2>1, <2>2
<1> HIDE DEF U
<1>2. \A n \in Nat : n \in U
  BY <1>1, FromSmaller
<1> QED BY <1>2 DEF U

(* A function whose value at each number follows from its value at some    *)
(* smaller one exists.                                                     *)
Back(N) == {prev \in [1 .. N -> 0 .. N] : \A n \in 1 .. N : prev[n] < n}
Steps(S, N) == [S \X (1 .. N) -> S]
Falls(S, a, N, prev, body) ==
  \E f \in [0 .. N -> S] : f[0] = a /\ \A n \in 1 .. N : f[n] = body[<<f[prev[n]], n>>]

LEMMA RecursionBack ==
  ASSUME NEW S, NEW a \in S, NEW N \in Nat, NEW prev \in Back(N), NEW body \in Steps(S, N)
  PROVE  Falls(S, a, N, prev, body)
<1> USE DEF Steps
<1> DEFINE Good(f, k) == f \in [0 .. k -> S] /\ f[0] = a /\ \A n \in 1 .. k : f[n] = body[<<f[prev[n]], n>>]
           T == {k \in 0 .. N : \E f : Good(f, k)}
<1>0. \A n \in 1 .. N : prev[n] \in 0 .. n - 1
  BY DEF Back
<1>1. 0 \in T
  <2>1. Good([n \in 0 .. 0 |-> a], 0)
    OBVIOUS
  <2>2. 0 \in 0 .. N
    OBVIOUS
  <2> HIDE DEF Good
  <2> QED BY <2>1, <2>2, Zenon
<1>2. ASSUME NEW n \in 1 .. N, n - 1 \in T
      PROVE  n \in T
  <2>1. PICK f : Good(f, n - 1)
    BY <1>2, Zenon
  <2> DEFINE x == body[<<f[prev[n]], n>>]
             g == [m \in 0 .. n |-> IF m = n THEN x ELSE f[m]]
  <2>2. prev[n] \in 0 .. n - 1 /\ n \in 0 .. N /\ n \in 0 .. n /\ n # 0
    BY <1>0
  <2>3. x \in S
    <3>1. <<f[prev[n]], n>> \in S \X (1 .. N)
      BY <2>1, <2>2
    <3> QED BY <3>1
  <2> HIDE DEF x
  <2>4. g \in [0 .. n -> S]
    <3>1. \A m \in 0 .. n : m # n => m \in 0 .. n - 1
      OBVIOUS
    <3> QED BY <2>1, <2>3, <3>1
  <2>5. g[0] = a
    BY <2>1, <2>2
  <2>6. ASSUME NEW m \in 1 .. n
        PROVE  g[m] = body[<<g[prev[m]], m>>]
    <3>1. prev[m] \in 0 .. n /\ prev[m] # n /\ m \in 0 .. n
      BY <1>0
    <3>2. g[prev[m]] = f[prev[m]]
      BY <3>1, Zenon
    <3>3. CASE m = n
      <4>1. g[m] = x
        BY <3>1, <3>3
      <4> QED BY <3>2, <3>3, <4>1, Zenon DEF x
    <3>4. CASE m # n
      <4>1. m \in 1 .. n - 1
        BY <3>4
      <4>2. g[m] = f[m]
        BY <3>1, <3>4, Zenon
      <4>3. f[m] = body[<<f[prev[m]], m>>]
        BY <2>1, <4>1
      <4> QED BY <3>2, <4>2, <4>3, Zenon
    <3> QED BY <3>3, <3>4
  <2> HIDE DEF g
  <2>7. Good(g, n)
    BY <2>4, <2>5, <2>6, Zenon
  <2> HIDE DEF Good
  <2> QED BY <2>2, <2>7, Zenon
<1> HIDE DEF T
<1>3. \A n \in 0 .. N : n \in T
  BY <1>1, <1>2, HandedOn
<1>4. N \in T
  BY <1>3
<1> QED BY <1>4, Zenon DEF T, Falls

(* The same where each value follows from the one before.                  *)
Loop(S, a, N, body) ==
  \E f \in [0 .. N -> S] : f[0] = a /\ \A n \in 1 .. N : f[n] = body[<<f[n - 1], n>>]

LEMMA Recursion ==
  ASSUME NEW S, NEW a \in S, NEW N \in Nat, NEW body \in Steps(S, N)
  PROVE  Loop(S, a, N, body)
<1> DEFINE prev == [n \in 1 .. N |-> n - 1]
<1>1. prev \in Back(N) /\ \A n \in 1 .. N : prev[n] = n - 1
  BY DEF Back
<1> HIDE DEF prev
<1>2. Falls(S, a, N, prev, body)
  BY <1>1, RecursionBack
<1> QED BY <1>1, <1>2, Zenon DEF Falls, Loop

(* Sequences one behind the other: what holds of nothing and is handed on  *)
(* from what is there to that with the next sequence behind it.            *)
Grows(s, P) == << >> \in P[0] /\ \A i \in 1 .. Len(s) : \A x \in P[i - 1] : x \o s[i] \in P[i]

LEMMA FlattenInto ==
  ASSUME NEW E, NEW s \in Seq(Seq(E)), NEW P \in [0 .. Len(s) -> SUBSET Seq(E)], Grows(s, P)
  PROVE  FlattenSeq(s) \in P[Len(s)]
<1> DEFINE S == Seq(E)
           N == Len(s)
           body == [q \in S \X (1 .. N) |-> IF q[2] = 1 THEN s[1] ELSE q[1] \o s[q[2]]]
           Turn(f, i) == IF i = 1 THEN s[i] ELSE f[i - 1] \o s[i]
           f == CHOOSE f : f = [i \in 1 .. N |-> Turn(f, i)]
<1>1. N \in Nat /\ << >> \in S /\ \A i \in 1 .. N : s[i] \in S
  OBVIOUS
<1>2. FlattenSeq(s) = IF N = 0 THEN s ELSE f[N]
  BY Zenon DEF FlattenSeq
<1> HIDE DEF f
<1>3. CASE N = 0
  <2>1. s = << >>
    BY <1>3
  <2> QED BY <1>1, <1>2, <1>3, <2>1 DEF Grows
<1>4. CASE N # 0
  <2>1. body \in Steps(S, N) /\ \A x \in S, i \in 1 .. N : body[<<x, i>>] = IF i = 1 THEN s[1] ELSE x \o s[i]
    <3>1. \A x, y \in S : x \o y \in S
      OBVIOUS
    <3>2. 1 \in 1 .. N
      BY <1>1, <1>4
    <3> HIDE DEF S, N
    <3>3. \A q \in S \X (1 .. N) : (IF q[2] = 1 THEN s[1] ELSE q[1] \o s[q[2]]) \in S
      BY <1>1, <3>1, <3>2
    <3>4. body \in Steps(S, N)
      BY <3>3, Zenon DEF Steps
    <3> QED BY <3>4
  <2> HIDE DEF S, N, body
  <2>2. PICK g \in [0 .. N -> S] : g[0] = << >> /\ \A i \in 1 .. N : g[i] = body[<<g[i - 1], i>>]
    <3>1. Loop(S, << >>, N, body)
      BY <1>1, <2>1, Recursion
    <3> QED BY <3>1, Zenon DEF Loop
  <2>3. \A i \in 1 .. N : g[i] = Turn(g, i)
    <3> TAKE i \in 1 .. N
    <3>1. i - 1 \in 0 .. N
      BY <1>1
    <3>2. g[i - 1] \in S
      BY <3>1
    <3>3. g[i] = body[<<g[i - 1], i>>]
      BY <2>2, <3>1, Zenon
    <3>4. g[i] = IF i = 1 THEN s[1] ELSE g[i - 1] \o s[i]
      BY <2>1, <3>2, <3>3, Zenon
    <3>5. CASE i = 1
      BY <3>4, <3>5, Zenon
    <3>6. CASE i # 1
      BY <3>4, <3>6, Zenon
    <3> QED BY <3>5, <3>6
  <2> DEFINE h == [i \in 1 .. N |-> g[i]]
  <2>4. h = [i \in 1 .. N |-> Turn(h, i)]
    <3>1. \A i \in 1 .. N : h[i] = Turn(h, i)
      <4> TAKE i \in 1 .. N
      <4>1. i # 1 => i - 1 \in 1 .. N
        BY <1>1
      <4> QED BY <2>3, <4>1, Zenon
    <3>2. h = [i \in 1 .. N |-> h[i]]
      OBVIOUS
    <3> QED BY <3>1, <3>2, Zenon
  <2>5. f = [i \in 1 .. N |-> Turn(f, i)]
    <3>1. \E k : k = [i \in 1 .. N |-> Turn(k, i)]
      BY <2>4, Zenon
    <3> QED BY <3>1, Zenon DEF f
  <2>6. \A i \in 1 .. N : f[i] = Turn(f, i)
    BY <2>5, Zenon
  <2> DEFINE T == {i \in 0 .. N : i = 0 \/ f[i] = g[i]}
  <2>7. 0 \in T
    BY <1>1
  <2>8. ASSUME NEW i \in 1 .. N, i - 1 \in T
        PROVE  i \in T
    <3>1. i \in 0 .. N /\ (i - 1 = 0 <=> i = 1)
      BY <1>1
    <3> QED BY <2>3, <2>6, <2>8, <3>1
  <2> HIDE DEF T
  <2>9. \A i \in 0 .. N : i \in T
    BY <1>1, <2>7, <2>8, HandedOn
  <2>10. N \in 1 .. N /\ N \in 0 .. N
    BY <1>1, <1>4
  <2>11. \A i \in 1 .. N : g[i] = g[i - 1] \o s[i]
    <3> TAKE i \in 1 .. N
    <3>1. CASE i = 1
      <4>1. g[i] = s[i] /\ g[i - 1] = << >>
        BY <2>2, <2>3, <3>1
      <4>2. << >> \o s[i] = s[i]
        BY <1>1, ConcatEmptySeq DEF S
      <4> QED BY <4>1, <4>2
    <3>2. CASE i # 1
      BY <2>3, <3>2
    <3> QED BY <3>1, <3>2
  <2> DEFINE Q == {i \in 0 .. N : g[i] \in P[i]}
  <2>12. 0 \in Q
    BY <1>1, <2>2 DEF Grows
  <2>13. ASSUME NEW i \in 1 .. N, i - 1 \in Q
         PROVE  i \in Q
    <3>1. g[i - 1] \in P[i - 1] /\ i \in 0 .. N
      BY <1>1, <2>13
    <3>2. g[i - 1] \o s[i] \in P[i]
      BY <3>1, Zenon DEF Grows, N
    <3> QED BY <2>11, <3>1, <3>2
  <2> HIDE DEF Q
  <2>14. \A i \in 0 .. N : i \in Q
    BY <1>1, <2>12, <2>13, HandedOn
  <2>15. f[N] = g[N] /\ g[N] \in P[N]
    BY <1>4, <2>9, <2>10, <2>14 DEF T, Q
  <2> QED BY <1>2, <1>4, <2>15, Zenon DEF N
<1> QED BY <1>3, <1>4
=============================================================================
