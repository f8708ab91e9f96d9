------------------------------ MODULE BootProofs ------------------------------
(***************************************************************************)
(* Theorems about the page allocator, for every page size, number of       *)
(* pages, memory map and list of reserved ranges, and about the boot it    *)
(* is part of.                                                             *)
(*                                                                         *)
(* The allocator's argument: every action either clears a set of bits and  *)
(* credits the counter with its size, or sets a set of bits and debits the *)
(* counter once for each bit that was clear; the counter therefore never   *)
(* falls below the size of the free pages, which is why no guarded debit   *)
(* is skipped, and stays equal to it when no page is credited twice.       *)
(*                                                                         *)
(* The boot implements the allocator, so that its promises hold there and  *)
(* the back buffer is nobody's memory; paging is the identity for every    *)
(* size of the tables.                                                     *)
(*                                                                         *)
(* And about the two ways the boot has to say something.  The log carries  *)
(* what its formats mean, for every word length, transmitter and format:   *)
(* most of that proof says that the digits print_num collects backwards    *)
(* are the number's shortest numeral, and that a loop defined by recursion *)
(* computes what it should.  The text screen is the end of a roll of       *)
(* paper, for every size of it.                                            *)
(***************************************************************************)
EXTENDS Boot, Terminal, Serial, LoopProofs, FiniteSetTheorems

-----------------------------------------------------------------------------
(* Arithmetic.                                                             *)

(* Division rounds down.                                                   *)
LEMMA DivBounds ==
  ASSUME NEW a \in Nat
  PROVE  /\ a \div PAGE_SIZE \in Nat
         /\ (a \div PAGE_SIZE) * PAGE_SIZE <= a
         /\ a < ((a \div PAGE_SIZE) + 1) * PAGE_SIZE
BY PhysAssumption

(* Whole pages compare and add up as their numbers do.                     *)
LEMMA PagesArithmetic ==
  ASSUME NEW k \in Nat, NEW n \in Nat
  PROVE  /\ k * PAGE_SIZE \in Nat
         /\ k <= n <=> k * PAGE_SIZE <= n * PAGE_SIZE
         /\ (n + k) * PAGE_SIZE = n * PAGE_SIZE + k * PAGE_SIZE
         /\ PAGE_SIZE * n = n * PAGE_SIZE
         /\ (n * PAGE_SIZE) \div PAGE_SIZE = n
BY PhysAssumption

-----------------------------------------------------------------------------
(* Sets of pages and the counter.                                          *)

LEMMA PageSetsFinite ==
  ASSUME NEW S \in SUBSET Page
  PROVE  IsFiniteSet(S) /\ Cardinality(S) \in Nat
<1>1. TOTAL_PAGES - 1 \in Int
  BY PhysAssumption
<1>2. IsFiniteSet(Page)
  BY <1>1, FS_Interval DEF Page
<1>3. IsFiniteSet(S)
  BY <1>2, FS_Subset
<1> QED BY <1>3, FS_CardinalityType

(* Clearing the bits of S and crediting each of them: the counter may      *)
(* exceed the free pages, and is exact if it was and S was marked.         *)
LEMMA CreditKeepsAccount ==
  ASSUME NEW S \in SUBSET Page,
         page_bitmap \subseteq Page, free_memory_bytes \in Nat, NeverUndercounts,
         page_bitmap' = page_bitmap \ S,
         free_memory_bytes' = free_memory_bytes + PAGE_SIZE * Cardinality(S)
  PROVE  /\ page_bitmap' \subseteq Page /\ free_memory_bytes' \in Nat
         /\ NeverUndercounts'
         /\ S \subseteq page_bitmap /\ free_memory_bytes = PAGE_SIZE * Cardinality(Free)
              => free_memory_bytes' = PAGE_SIZE * Cardinality(Free')
<1>1. Free \in SUBSET Page /\ Free' = Free \cup S /\ Free \cap S \in SUBSET Page
  BY DEF Free
<1> DEFINE f == Cardinality(Free)  s == Cardinality(S)  o == Cardinality(Free \cap S)
           f1 == Cardinality(Free \cup S)
<1>2. /\ IsFiniteSet(Free) /\ IsFiniteSet(S)
      /\ f \in Nat /\ s \in Nat /\ o \in Nat
  BY <1>1, PageSetsFinite
<1>3. f1 = f + s - o
  BY <1>2, FS_Union
<1>4. S \subseteq page_bitmap => o = 0
  <2>1. S \subseteq page_bitmap => Free \cap S = {}
    BY DEF Free
  <2> QED BY <2>1, FS_EmptySet
<1>5. Cardinality(Free') = f1
  BY <1>1
<1>6. f1 \in Nat
  <2>1. Free \cup S \in SUBSET Page
    BY <1>1
  <2> QED BY <2>1, PageSetsFinite
<1> HIDE DEF f, s, o, f1
<1>7. /\ PAGE_SIZE * s \in Nat /\ PAGE_SIZE * f \in Nat /\ PAGE_SIZE * f1 \in Nat
      /\ PAGE_SIZE * f1 <= PAGE_SIZE * f + PAGE_SIZE * s
      /\ o = 0 => PAGE_SIZE * f1 = PAGE_SIZE * f + PAGE_SIZE * s
  BY <1>2, <1>3, <1>6, PhysAssumption
<1>8. free_memory_bytes' = free_memory_bytes + PAGE_SIZE * s /\ free_memory_bytes >= PAGE_SIZE * f
  BY DEF NeverUndercounts, f, s
<1>9. NeverUndercounts'
  <2>1. free_memory_bytes' >= PAGE_SIZE * f1
    BY <1>7, <1>8
  <2> QED BY <2>1, <1>5 DEF NeverUndercounts
<1>10. S \subseteq page_bitmap /\ free_memory_bytes = PAGE_SIZE * f
         => free_memory_bytes' = PAGE_SIZE * Cardinality(Free')
  BY <1>4, <1>5, <1>7, <1>8
<1> QED BY <1>7, <1>8, <1>9, <1>10 DEF f

(* Setting the bits of S and debiting, under the guard, each that was      *)
(* clear: the guard never binds, and the counter stays as exact as it was. *)
LEMMA DebitKeepsAccount ==
  ASSUME NEW S \in SUBSET Page,
         page_bitmap \subseteq Page, free_memory_bytes \in Nat, NeverUndercounts,
         page_bitmap' = page_bitmap \cup S,
         free_memory_bytes' = Debit(free_memory_bytes, Cardinality(S \ page_bitmap))
  PROVE  /\ page_bitmap' \subseteq Page /\ free_memory_bytes' \in Nat
         /\ NeverUndercounts'
         /\ free_memory_bytes = PAGE_SIZE * Cardinality(Free)
              => free_memory_bytes' = PAGE_SIZE * Cardinality(Free')
<1>1. /\ Free \in SUBSET Page /\ Free' \in SUBSET Page /\ S \ page_bitmap \in SUBSET Page
      /\ Free = Free' \cup (S \ page_bitmap) /\ Free' \cap (S \ page_bitmap) = {}
  BY DEF Free
<1> DEFINE f == Cardinality(Free)  f1 == Cardinality(Free')  k == Cardinality(S \ page_bitmap)
<1>2. /\ IsFiniteSet(Free') /\ IsFiniteSet(S \ page_bitmap)
      /\ f \in Nat /\ f1 \in Nat /\ k \in Nat
  BY <1>1, PageSetsFinite
<1>3. f = f1 + k
  <2>1. Cardinality(Free' \cap (S \ page_bitmap)) = 0
    BY <1>1, FS_EmptySet
  <2>2. Cardinality(Free' \cup (S \ page_bitmap)) = f1 + k - 0
    BY <1>2, <2>1, FS_Union
  <2> QED BY <1>1, <1>2, <2>2
<1>4. free_memory_bytes' = Debit(free_memory_bytes, k) /\ free_memory_bytes >= PAGE_SIZE * f
  BY DEF NeverUndercounts
<1> HIDE DEF f, f1, k
<1>5. /\ PAGE_SIZE * f = PAGE_SIZE * f1 + k * PAGE_SIZE
      /\ k * PAGE_SIZE \in Nat /\ PAGE_SIZE * f1 \in Nat
  BY <1>2, <1>3, PhysAssumption
<1>6. free_memory_bytes' = free_memory_bytes - k * PAGE_SIZE
  BY <1>4, <1>5 DEF Debit
<1>7. free_memory_bytes' \in Nat /\ free_memory_bytes' >= PAGE_SIZE * f1
  BY <1>4, <1>5, <1>6
<1>8. free_memory_bytes = PAGE_SIZE * f => free_memory_bytes' = PAGE_SIZE * f1
  BY <1>5, <1>6
<1>9. page_bitmap' \subseteq Page
  OBVIOUS
<1> QED BY <1>7, <1>8, <1>9 DEF f, f1, NeverUndercounts

-----------------------------------------------------------------------------
(* The inductive invariant.                                                *)

AccountInv == PhysInv /\ AccountingExact

LEMMA PageSets ==
  /\ \A e : PagesOf(e) \in SUBSET Page
  /\ \A r : RangePages(r) \in SUBSET Page
BY DEF PagesOf, RangePages

(* While phys_init runs nobody holds a page.                               *)
LEMMA NotReadyReservedMarked == owned = {} /\ ~Ready => ReservedMarked
BY DEF ReservedMarked

LEMMA InitAccount == Init => AccountInv
<1> SUFFICES ASSUME Init PROVE AccountInv
  OBVIOUS
<1>1. TypeOK
  BY PhysAssumption DEF Init, TypeOK
<1>2. InitProgress
  BY PageSets DEF Init, InitProgress, Ready
<1>3. Free = {}
  BY DEF Init, Free
<1>4. PAGE_SIZE * Cardinality(Free) = 0 /\ free_memory_bytes = 0
  <2>1. Cardinality(Free) = 0
    BY <1>3, FS_EmptySet
  <2> QED BY <2>1, PhysAssumption DEF Init
<1>5. ReservedMarked
  BY NotReadyReservedMarked DEF Init, Ready
<1> QED BY <1>1, <1>2, <1>4, <1>5 DEF AccountInv, PhysInv, NeverUndercounts, AccountingExact

LEMMA ParseEntryAccount == AccountInv /\ ParseEntry => AccountInv'
<1> SUFFICES ASSUME AccountInv, ParseEntry PROVE AccountInv'
  OBVIOUS
<1> DEFINE e == mmap[step[2]]
<1>1. /\ TypeOK /\ InitProgress /\ NeverUndercounts
      /\ PageDisjoint(mmap) => free_memory_bytes = PAGE_SIZE * Cardinality(Free)
  BY DEF AccountInv, PhysInv, AccountingExact
<1>2. /\ mmap \in Seq(Entry) /\ step[2] \in DOMAIN mmap /\ step[2] \in Nat
      /\ step[1] = "parse" /\ step' = <<"parse", step[2] + 1>>
      /\ UNCHANGED <<mmap, ret, owned, misused>>
  BY <1>1, PhysAssumption DEF ParseEntry, TypeOK
<1>3. e \in Entry
  BY <1>2
<1>4. ~Ready /\ ~Ready' /\ owned = {} /\ owned' = {}
  BY <1>1, <1>2 DEF Ready, InitProgress
<1>7. ReservedMarked'
  BY <1>4 DEF ReservedMarked
<1>5. CASE Usable(e)
  <2>1. /\ page_bitmap' = page_bitmap \ PagesOf(e)
        /\ free_memory_bytes' = free_memory_bytes + PAGE_SIZE * Cardinality(PagesOf(e))
        /\ total_memory_bytes' = total_memory_bytes + e.len
    BY <1>5 DEF ParseEntry
  <2>2. PagesOf(e) \in SUBSET Page
    BY PageSets
  <2>3. page_bitmap \subseteq Page /\ free_memory_bytes \in Nat
    BY <1>1 DEF TypeOK
  <2>4. PageDisjoint(mmap) => PagesOf(e) \subseteq page_bitmap
    BY <1>1, <1>2, <1>5 DEF InitProgress
  <2>5. /\ page_bitmap' \subseteq Page /\ free_memory_bytes' \in Nat
        /\ NeverUndercounts'
        /\ PageDisjoint(mmap) => free_memory_bytes' = PAGE_SIZE * Cardinality(Free')
    <3> HIDE DEF e
    <3> QED BY <1>1, <2>1, <2>2, <2>3, <2>4, CreditKeepsAccount
  <2>6. TypeOK'
    <3>1. total_memory_bytes' \in Nat
      BY <1>1, <1>3, <2>1 DEF TypeOK, Entry
    <3>2. step' \in {"parse", "reserve", "ready"} \X Nat
      BY <1>2
    <3> HIDE DEF e
    <3> QED BY <1>1, <1>2, <2>5, <3>1, <3>2 DEF TypeOK
  <2>7. ASSUME PageDisjoint(mmap), NEW i \in DOMAIN mmap, i >= step[2] + 1, Usable(mmap[i])
        PROVE  PagesOf(mmap[i]) \subseteq page_bitmap'
    <3>1. PagesOf(mmap[i]) \subseteq page_bitmap
      BY <1>1, <1>2, <2>7 DEF InitProgress
    <3>2. PagesOf(mmap[i]) \cap PagesOf(e) = {}
      BY <1>2, <1>5, <2>7 DEF PageDisjoint
    <3> QED BY <2>1, <3>1, <3>2
  <2>8. InitProgress'
    BY <1>2, <1>4, <2>7 DEF InitProgress, Ready, PageDisjoint, Usable, PagesOf
  <2>9. PageDisjoint(mmap)' <=> PageDisjoint(mmap)
    BY <1>2 DEF PageDisjoint, Usable, PagesOf
  <2> QED BY <1>7, <2>5, <2>6, <2>8, <2>9 DEF AccountInv, PhysInv, AccountingExact
<1>6. CASE ~Usable(e)
  <2>1. UNCHANGED <<page_bitmap, free_memory_bytes, total_memory_bytes>>
    BY <1>6 DEF ParseEntry
  <2>2. TypeOK'
    BY <1>1, <1>2, <2>1 DEF TypeOK
  <2>3. InitProgress'
    BY <1>1, <1>2, <1>4, <2>1 DEF InitProgress, Ready, PageDisjoint, Usable, PagesOf
  <2>4. (PageDisjoint(mmap)' <=> PageDisjoint(mmap)) /\ Free' = Free
    BY <1>2, <2>1 DEF PageDisjoint, Usable, PagesOf, Free
  <2> QED BY <1>1, <1>7, <2>1, <2>2, <2>3, <2>4 DEF AccountInv, PhysInv, AccountingExact, NeverUndercounts
<1> QED BY <1>5, <1>6

(* Without a map the counter is credited for the low pages only.           *)
LEMMA FallbackAccount == AccountInv /\ Fallback => AccountInv'
<1> SUFFICES ASSUME AccountInv, Fallback PROVE AccountInv'
  OBVIOUS
<1> DEFINE n == FALLBACK \div PAGE_SIZE
           low == {p \in Page : p < n}
<1>1. /\ TypeOK /\ InitProgress /\ NeverUndercounts
      /\ PageDisjoint(mmap) => free_memory_bytes = PAGE_SIZE * Cardinality(Free)
  BY DEF AccountInv, PhysInv, AccountingExact
<1>2. n \in 0 .. TOTAL_PAGES
  BY PhysAssumption
<1>3. low = 0 .. n - 1
  BY <1>2, PhysAssumption DEF Page
<1>4. Cardinality(low) = n
  <2>1. n - 1 \in Int /\ 0 \in Int
    BY <1>2, PhysAssumption
  <2> HIDE DEF n, low
  <2>2. Cardinality(0 .. n - 1) = IF 0 > n - 1 THEN 0 ELSE n - 1 - 0 + 1
    BY <2>1, FS_Interval
  <2>3. Cardinality(low) = Cardinality(0 .. n - 1)
    BY <1>3
  <2> QED BY <1>2, <2>2, <2>3, PhysAssumption
<1>5. /\ mmap = << >> /\ step[1] = "parse" /\ step' = <<"reserve", 1>>
      /\ UNCHANGED <<mmap, ret, owned, misused>>
      /\ page_bitmap' = page_bitmap \ low
      /\ free_memory_bytes' = free_memory_bytes + PAGE_SIZE * n
      /\ total_memory_bytes' = FALLBACK
  BY DEF Fallback
<1>6. low \in SUBSET Page /\ low \subseteq page_bitmap
  BY <1>1, <1>5 DEF InitProgress
<1>7. page_bitmap \subseteq Page /\ free_memory_bytes \in Nat
  BY <1>1 DEF TypeOK
<1> HIDE DEF n, low
<1>8. free_memory_bytes' = free_memory_bytes + PAGE_SIZE * Cardinality(low)
  BY <1>4, <1>5
<1>9. /\ page_bitmap' \subseteq Page /\ free_memory_bytes' \in Nat
      /\ NeverUndercounts'
      /\ free_memory_bytes = PAGE_SIZE * Cardinality(Free)
           => free_memory_bytes' = PAGE_SIZE * Cardinality(Free')
  BY <1>1, <1>5, <1>6, <1>7, <1>8, CreditKeepsAccount
<1>10. TypeOK'
  BY <1>1, <1>5, <1>9, PhysAssumption DEF TypeOK
<1>11. InitProgress'
  <2>1. step'[1] = "reserve" /\ step'[2] = 1
    BY <1>5
  <2>2. owned = {} /\ owned' = {}
    BY <1>1, <1>5 DEF InitProgress, Ready
  <2>3. \A i \in DOMAIN Ranges : ~(i < 1)
    BY PhysAssumption
  <2> QED BY <2>1, <2>2, <2>3 DEF InitProgress, Ready
<1>13. ReservedMarked'
  <2>1. ~Ready' /\ owned' = {}
    BY <1>1, <1>5 DEF InitProgress, Ready
  <2> QED BY <2>1 DEF ReservedMarked
<1>12. PageDisjoint(mmap)' <=> PageDisjoint(mmap)
  BY <1>5 DEF PageDisjoint, Usable, PagesOf
<1> QED BY <1>1, <1>9, <1>10, <1>11, <1>12, <1>13 DEF AccountInv, PhysInv, AccountingExact

LEMMA ReserveRangeAccount == AccountInv /\ ReserveRange => AccountInv'
<1> SUFFICES ASSUME AccountInv, ReserveRange PROVE AccountInv'
  OBVIOUS
<1> DEFINE S == RangePages(Ranges[step[2]])
<1>1. /\ TypeOK /\ InitProgress /\ NeverUndercounts
      /\ PageDisjoint(mmap) => free_memory_bytes = PAGE_SIZE * Cardinality(Free)
  BY DEF AccountInv, PhysInv, AccountingExact
<1>2. /\ step[1] = "reserve" /\ step[2] \in DOMAIN Ranges /\ step' = <<"reserve", step[2] + 1>>
      /\ page_bitmap' = page_bitmap \cup S
      /\ free_memory_bytes' = Debit(free_memory_bytes, Cardinality(S \ page_bitmap))
      /\ UNCHANGED <<mmap, total_memory_bytes, ret, owned, misused>>
  BY DEF ReserveRange, mark_range_reserved
<1>3. S \in SUBSET Page
  BY PageSets
<1>4. page_bitmap \subseteq Page /\ free_memory_bytes \in Nat
  BY <1>1 DEF TypeOK
<1> HIDE DEF S
<1>5. /\ page_bitmap' \subseteq Page /\ free_memory_bytes' \in Nat
      /\ NeverUndercounts'
      /\ free_memory_bytes = PAGE_SIZE * Cardinality(Free)
           => free_memory_bytes' = PAGE_SIZE * Cardinality(Free')
  BY <1>1, <1>2, <1>3, <1>4, DebitKeepsAccount
<1>6. TypeOK'
  <2>1. step[2] \in Nat
    BY <1>1 DEF TypeOK
  <2> QED BY <1>1, <1>2, <1>5, <2>1 DEF TypeOK
<1>7. InitProgress'
  <2>1. owned = {} /\ owned' = {} /\ ~Ready' /\ step'[1] = "reserve" /\ step'[2] = step[2] + 1
    BY <1>1, <1>2 DEF InitProgress, Ready
  <2>2. ASSUME NEW i \in DOMAIN Ranges, i < step[2] + 1
        PROVE  RangePages(Ranges[i]) \subseteq page_bitmap'
    <3>1. CASE i < step[2]
      BY <1>1, <1>2, <3>1 DEF InitProgress
    <3>2. CASE i = step[2]
      BY <1>2, <3>2 DEF S
    <3>3. i \in Nat /\ step[2] \in Nat
      BY <1>1, PhysAssumption DEF TypeOK
    <3> QED BY <2>2, <3>1, <3>2, <3>3
  <2> QED BY <2>1, <2>2 DEF InitProgress
<1>8. PageDisjoint(mmap)' <=> PageDisjoint(mmap)
  BY <1>2 DEF PageDisjoint, Usable, PagesOf
<1>9. ReservedMarked'
  <2>1. ~Ready' /\ owned' = {}
    BY <1>1, <1>2 DEF InitProgress, Ready
  <2> QED BY <2>1 DEF ReservedMarked
<1> QED BY <1>1, <1>5, <1>6, <1>7, <1>8, <1>9 DEF AccountInv, PhysInv, AccountingExact

(* The two steps that only move phys_init on.                              *)
LEMMA MoveOnAccount == AccountInv /\ (ParseDone \/ InitDone) => AccountInv'
<1> SUFFICES ASSUME AccountInv, ParseDone \/ InitDone PROVE AccountInv'
  OBVIOUS
<1>1. /\ TypeOK /\ InitProgress /\ NeverUndercounts
      /\ PageDisjoint(mmap) => free_memory_bytes = PAGE_SIZE * Cardinality(Free)
  BY DEF AccountInv, PhysInv, AccountingExact
<1>2. UNCHANGED <<mmap, page_bitmap, total_memory_bytes, free_memory_bytes, ret, owned, misused>>
  BY DEF ParseDone, InitDone
<1>3. TypeOK'
  BY <1>1, <1>2 DEF TypeOK, ParseDone, InitDone
<1>4. InitProgress' /\ ReservedMarked'
  <2>1. CASE ParseDone
    <3>1. step[1] = "parse" /\ step'[1] = "reserve" /\ step'[2] = 1
      BY <2>1 DEF ParseDone
    <3>2. owned' = {}
      BY <1>1, <1>2, <3>1 DEF InitProgress, Ready
    <3>3. \A i \in DOMAIN Ranges : ~(i < 1)
      BY PhysAssumption
    <3> QED BY <3>1, <3>2, <3>3 DEF InitProgress, ReservedMarked, Ready
  <2>2. CASE InitDone
    <3>1. step[1] = "reserve" /\ step[2] = Len(Ranges) + 1 /\ step'[1] = "ready"
      BY <2>2 DEF InitDone
    <3>2. owned' = {}
      BY <1>1, <1>2, <3>1 DEF InitProgress, Ready
    <3>3. \A i \in DOMAIN Ranges : i < Len(Ranges) + 1
      BY PhysAssumption
    <3>4. \A i \in DOMAIN Ranges : RangePages(Ranges[i]) \subseteq page_bitmap'
      BY <1>1, <1>2, <3>1, <3>3 DEF InitProgress
    <3>5. InitProgress'
      BY <3>1 DEF InitProgress, Ready
    <3>6. ReservedMarked'
      BY <3>2, <3>4 DEF ReservedMarked
    <3> QED BY <3>5, <3>6
  <2> QED BY <2>1, <2>2
<1>5. (PageDisjoint(mmap)' <=> PageDisjoint(mmap)) /\ Free' = Free
  BY <1>2 DEF PageDisjoint, Usable, PagesOf, Free
<1> QED BY <1>1, <1>2, <1>3, <1>4, <1>5 DEF AccountInv, PhysInv, AccountingExact, NeverUndercounts

LEMMA LowestIn ==
  ASSUME NEW S \in SUBSET Page, S # {}
  PROVE  Lowest(S) \in S
<1>1. S \in SUBSET Nat
  BY DEF Page
<1>2. \E p \in S : \A other \in S : p <= other
  BY <1>1, LeastOf
<1> QED BY <1>2 DEF Lowest

LEMMA AllocAccount == AccountInv /\ phys_alloc_page => AccountInv'
<1> SUFFICES ASSUME AccountInv, phys_alloc_page PROVE AccountInv'
  OBVIOUS
<1> DEFINE p == Lowest(Free)
<1>1. /\ TypeOK /\ InitProgress /\ NeverUndercounts /\ (~misused => ReservedMarked)
      /\ PageDisjoint(mmap) => free_memory_bytes = PAGE_SIZE * Cardinality(Free)
  BY DEF AccountInv, PhysInv, AccountingExact
<1>2. Ready /\ UNCHANGED <<mmap, step, total_memory_bytes, misused>>
  BY DEF phys_alloc_page
<1>3. PageDisjoint(mmap)' <=> PageDisjoint(mmap)
  BY <1>2 DEF PageDisjoint, Usable, PagesOf
<1>4. InitProgress'
  BY <1>2 DEF InitProgress, Ready
<1>5. CASE Free = {}
  <2>1. ret' = 0 /\ UNCHANGED <<page_bitmap, free_memory_bytes, owned>>
    BY <1>5 DEF phys_alloc_page
  <2>2. TypeOK'
    BY <1>1, <1>2, <2>1 DEF TypeOK
  <2>3. ReservedMarked' <=> ReservedMarked
    BY <1>2, <2>1 DEF ReservedMarked, Ready
  <2>4. Free' = Free
    BY <2>1 DEF Free
  <2> QED BY <1>1, <1>2, <1>3, <1>4, <2>1, <2>2, <2>3, <2>4
          DEF AccountInv, PhysInv, AccountingExact, NeverUndercounts
<1>6. CASE Free # {}
  <2>1. p \in Free /\ p \in Page /\ p \notin page_bitmap
    BY <1>6, LowestIn DEF Free
  <2>2. /\ page_bitmap' = page_bitmap \cup {p}
        /\ free_memory_bytes' = Debit(free_memory_bytes, 1)
        /\ ret' = p * PAGE_SIZE
        /\ owned' = owned \cup {p}
    BY <1>6 DEF phys_alloc_page, Take
  <2> HIDE DEF p
  <2>3. {p} \ page_bitmap = {p} /\ {p} \in SUBSET Page
    BY <2>1
  <2>4. Cardinality({p} \ page_bitmap) = 1
    BY <2>3, FS_Singleton
  <2>5. page_bitmap \subseteq Page /\ free_memory_bytes \in Nat
    BY <1>1 DEF TypeOK
  <2>6. /\ page_bitmap' \subseteq Page /\ free_memory_bytes' \in Nat
        /\ NeverUndercounts'
        /\ free_memory_bytes = PAGE_SIZE * Cardinality(Free)
             => free_memory_bytes' = PAGE_SIZE * Cardinality(Free')
    BY <1>1, <2>2, <2>3, <2>4, <2>5, DebitKeepsAccount
  <2>7. TypeOK'
    <3>1. p \in Nat
      BY <2>1 DEF Page
    <3>2. ret' \in Nat
      BY <2>2, <3>1, PagesArithmetic
    <3> QED BY <1>1, <1>2, <2>1, <2>2, <2>6, <3>2 DEF TypeOK
  <2>8. ReservedMarked => ReservedMarked'
    BY <1>2, <2>1, <2>2 DEF ReservedMarked, Ready
  <2> QED BY <1>1, <1>2, <1>3, <1>4, <2>6, <2>7, <2>8 DEF AccountInv, PhysInv, AccountingExact
<1> QED BY <1>5, <1>6

LEMMA FreeAccount == AccountInv /\ ClientFree => AccountInv'
<1> SUFFICES ASSUME AccountInv, ClientFree PROVE AccountInv'
  OBVIOUS
<1>1. /\ TypeOK /\ InitProgress /\ NeverUndercounts /\ (~misused => ReservedMarked)
      /\ PageDisjoint(mmap) => free_memory_bytes = PAGE_SIZE * Cardinality(Free)
  BY DEF AccountInv, PhysInv, AccountingExact
<1>2. PICK p \in Page : /\ Ready /\ UNCHANGED <<mmap, step, total_memory_bytes, ret>>
                        /\ GiveBack(p)
                        /\ owned' = owned \ {p}
                        /\ misused' \in BOOLEAN
                        /\ ~misused' => ~misused /\ p \in owned
  <2>1. CASE (\E p \in owned : phys_free_page(p * PAGE_SIZE)) /\ UNCHANGED misused
    <3>1. PICK p \in owned : phys_free_page(p * PAGE_SIZE)
      BY <2>1
    <3>2. p \in Page /\ p \in Nat
      BY <1>1, <3>1 DEF TypeOK, Page
    <3>3. (p * PAGE_SIZE) \div PAGE_SIZE = p
      BY <3>2, PagesArithmetic
    <3>4. misused' \in BOOLEAN
      BY <1>1, <2>1 DEF TypeOK
    <3>5. ~misused' => ~misused
      BY <2>1
    <3> QED BY <3>1, <3>2, <3>3, <3>4, <3>5 DEF phys_free_page
  <2>2. CASE ret = 0 /\ phys_free_page(0) /\ misused' = TRUE
    <3>1. 0 \div PAGE_SIZE = 0 /\ 0 \in Page
      BY PhysAssumption DEF Page
    <3>2. misused' \in BOOLEAN /\ misused'
      BY <2>2
    <3> QED BY <2>2, <3>1, <3>2 DEF phys_free_page
  <2> QED BY <2>1, <2>2 DEF ClientFree
<1>3. PageDisjoint(mmap)' <=> PageDisjoint(mmap)
  BY <1>2 DEF PageDisjoint, Usable, PagesOf
<1>4. InitProgress'
  BY <1>2 DEF InitProgress, Ready
<1>5. CASE p \in page_bitmap
  <2>1. /\ page_bitmap' = page_bitmap \ {p}
        /\ free_memory_bytes' = free_memory_bytes + PAGE_SIZE
    BY <1>2, <1>5, PhysAssumption DEF GiveBack, Page
  <2>2. {p} \in SUBSET Page /\ {p} \subseteq page_bitmap /\ Cardinality({p}) = 1
    BY <1>5, FS_Singleton
  <2>3. free_memory_bytes' = free_memory_bytes + PAGE_SIZE * Cardinality({p})
    BY <2>1, <2>2, PhysAssumption
  <2>4. page_bitmap \subseteq Page /\ free_memory_bytes \in Nat
    BY <1>1 DEF TypeOK
  <2>5. /\ page_bitmap' \subseteq Page /\ free_memory_bytes' \in Nat
        /\ NeverUndercounts'
        /\ free_memory_bytes = PAGE_SIZE * Cardinality(Free)
             => free_memory_bytes' = PAGE_SIZE * Cardinality(Free')
    BY <1>1, <2>1, <2>2, <2>3, <2>4, CreditKeepsAccount
  <2>6. TypeOK'
    BY <1>1, <1>2, <2>5 DEF TypeOK
  <2>7. ~misused' => ReservedMarked'
    BY <1>1, <1>2, <2>1 DEF ReservedMarked, Ready
  <2> QED BY <1>1, <1>3, <1>4, <2>5, <2>6, <2>7 DEF AccountInv, PhysInv, AccountingExact
<1>6. CASE p \notin page_bitmap
  <2>1. UNCHANGED <<page_bitmap, free_memory_bytes>>
    BY <1>2, <1>6 DEF GiveBack
  <2>2. TypeOK'
    BY <1>1, <1>2, <2>1 DEF TypeOK
  <2>3. ~misused' => ReservedMarked'
    BY <1>1, <1>2, <1>6 DEF ReservedMarked
  <2>4. Free' = Free
    BY <2>1 DEF Free
  <2> QED BY <1>1, <1>3, <1>4, <2>1, <2>2, <2>3, <2>4
          DEF AccountInv, PhysInv, AccountingExact, NeverUndercounts
<1> QED BY <1>5, <1>6

LEMMA NextAccount == AccountInv /\ [Next]_vars => AccountInv'
<1> SUFFICES ASSUME AccountInv, [Next]_vars PROVE AccountInv'
  OBVIOUS
<1>1. CASE UNCHANGED vars
  BY <1>1 DEF vars, AccountInv, PhysInv, TypeOK, InitProgress, ReservedMarked, Ready, AccountingExact,
              NeverUndercounts, Free, PageDisjoint, Usable, PagesOf
<1>2. CASE Next
  BY <1>2, ParseEntryAccount, FallbackAccount, ReserveRangeAccount, MoveOnAccount,
     AllocAccount, FreeAccount DEF Next
<1> QED BY <1>1, <1>2

(* Through initialisation and every sequence of calls the state is well    *)
(* formed, the counter never falls below the free pages, and it is exactly *)
(* their size when the map lists no page twice.                            *)
THEOREM AccountAlways == Spec => []AccountInv
<1> QED BY InitAccount, NextAccount, PTL DEF Spec

(* The state is well formed at every step, phys_init's included, and until *)
(* misuse every reserved page stays marked.                                *)
THEOREM PhysInvAlways == Spec => []PhysInv
<1>1. AccountInv => PhysInv
  BY DEF AccountInv
<1> QED BY <1>1, AccountAlways, PTL

(* The counter is never too small, and exact on every map that lists no    *)
(* page twice.                                                             *)
THEOREM AccountingExactAlways == Spec => []AccountingExact
<1>1. AccountInv => AccountingExact
  BY DEF AccountInv
<1> QED BY <1>1, AccountAlways, PTL

-----------------------------------------------------------------------------
(* Ownership.                                                              *)

(* The pages mark_range_reserved marks are those with a byte in the range. *)
LEMMA TouchedPagesMarked ==
  ASSUME NEW p \in Page, NEW r \in ByteRange, Touches(p, r)
  PROVE  p \in RangePages(r)
<1>1. /\ p \in Nat /\ r.start \in Nat /\ r.size \in Nat
      /\ PAGE_SIZE \in Nat /\ PAGE_SIZE > 0
  BY PhysAssumption DEF Page, ByteRange
<1> DEFINE a == r.start
           b == r.start + r.size + PAGE_SIZE - 1
<1>2. a \in Nat /\ b \in Nat
  BY <1>1
<1>3. p * PAGE_SIZE <= b - PAGE_SIZE /\ a < (p + 1) * PAGE_SIZE
  BY <1>1 DEF Touches
<1> HIDE DEF a, b
<1>4. a \div PAGE_SIZE <= p
  <2>1. (a \div PAGE_SIZE) * PAGE_SIZE < (p + 1) * PAGE_SIZE /\ a \div PAGE_SIZE \in Nat
    BY <1>1, <1>2, <1>3, DivBounds
  <2>2. a \div PAGE_SIZE < p + 1
    BY <1>1, <2>1, PagesArithmetic
  <2> QED BY <1>1, <2>1, <2>2
<1>5. p < b \div PAGE_SIZE
  <2>1. /\ b < (b \div PAGE_SIZE + 1) * PAGE_SIZE /\ b \div PAGE_SIZE \in Nat
        /\ (p + 1) * PAGE_SIZE = p * PAGE_SIZE + PAGE_SIZE
    BY <1>1, <1>2, DivBounds, PagesArithmetic
  <2>2. (p + 1) * PAGE_SIZE < (b \div PAGE_SIZE + 1) * PAGE_SIZE
    BY <1>1, <1>2, <1>3, <2>1
  <2>3. p + 1 < b \div PAGE_SIZE + 1
    BY <1>1, <2>1, <2>2, PagesArithmetic
  <2> QED BY <1>1, <2>1, <2>3
<1> QED BY <1>4, <1>5 DEF RangePages, a, b

(* Until a client gives back the 0 of a failed call, the pages clients hold *)
(* are marked and none of them touches a reserved range.                   *)
THEOREM OwnedSafeAlways == Spec => []OwnedSafe
<1>1. ASSUME AccountInv PROVE OwnedSafe
  <2> SUFFICES ASSUME ~misused PROVE OwnedSafe
    BY DEF OwnedSafe
  <2>1. TypeOK /\ InitProgress /\ ReservedMarked
    BY <1>1 DEF AccountInv, PhysInv
  <2>2. CASE ~Ready
    BY <2>1, <2>2 DEF InitProgress, OwnedSafe
  <2>3. CASE Ready
    <3>1. ASSUME NEW p \in owned, NEW i \in DOMAIN Ranges, Touches(p, Ranges[i])
          PROVE  FALSE
      <4>1. p \in Page
        BY <2>1 DEF TypeOK
      <4>2. Ranges[i] \in ByteRange
        BY PhysAssumption
      <4>3. p \in RangePages(Ranges[i])
        BY <3>1, <4>1, <4>2, TouchedPagesMarked
      <4> QED BY <2>1, <2>3, <4>3 DEF ReservedMarked
    <3> QED BY <2>1, <3>1 DEF OwnedSafe, ReservedPages, ReservedMarked
  <2> QED BY <2>2, <2>3
<1> QED BY <1>1, AccountAlways, PTL

(* No page is handed out while a client holds it.                          *)
THEOREM NoSharingAlways == Spec => NoSharing
<1>1. ASSUME OwnedSafe, ~misused, phys_alloc_page, Free # {}
      PROVE  ret' \div PAGE_SIZE \notin owned
  <2>1. Lowest(Free) \in Free /\ Lowest(Free) \in Nat
    <3>1. Free \in SUBSET Page
      BY DEF Free
    <3>2. Lowest(Free) \in Free
      BY <1>1, <3>1, LowestIn
    <3>3. Lowest(Free) \in Page
      BY <3>1, <3>2
    <3> QED BY <3>2, <3>3 DEF Page
  <2>2. ret' = Lowest(Free) * PAGE_SIZE
    BY <1>1 DEF phys_alloc_page, Take
  <2>3. ret' \div PAGE_SIZE = Lowest(Free)
    BY <2>1, <2>2, PagesArithmetic
  <2> QED BY <1>1, <2>1, <2>3 DEF OwnedSafe, Free
<1>2. OwnedSafe => [~misused /\ phys_alloc_page /\ Free # {} => ret' \div PAGE_SIZE \notin owned]_vars
  BY <1>1
<1> QED BY <1>2, OwnedSafeAlways, PTL DEF NoSharing

(* With a reserved range over page 0, as the low region is, the answer 0   *)
(* means that no page is free.                                             *)
THEOREM ZeroMeansExhaustedAlways ==
  ASSUME 0 \in ReservedPages
  PROVE  Spec => ZeroMeansExhausted
<1>1. ASSUME AccountInv, ~misused, phys_alloc_page, ret' = 0
      PROVE  Free = {}
  <2>1. SUFFICES ASSUME Free # {} PROVE FALSE
    OBVIOUS
  <2>2. Lowest(Free) \in Free /\ Lowest(Free) \in Nat
    <3>1. Free \in SUBSET Page
      BY DEF Free
    <3>2. Lowest(Free) \in Free
      BY <2>1, <3>1, LowestIn
    <3>3. Lowest(Free) \in Page
      BY <3>1, <3>2
    <3> QED BY <3>2, <3>3 DEF Page
  <2>3. Lowest(Free) * PAGE_SIZE = 0
    BY <1>1, <2>1 DEF phys_alloc_page, Take
  <2>4. Lowest(Free) = 0
    BY <2>2, <2>3, PhysAssumption
  <2>5. PICK i \in DOMAIN Ranges : 0 \in Page /\ Touches(0, Ranges[i])
    BY DEF ReservedPages
  <2>6. Ranges[i] \in ByteRange
    BY PhysAssumption
  <2>7. 0 \in RangePages(Ranges[i])
    BY <2>5, <2>6, TouchedPagesMarked
  <2>8. 0 \in page_bitmap
    BY <1>1, <2>7 DEF AccountInv, PhysInv, ReservedMarked, phys_alloc_page
  <2> QED BY <2>2, <2>4, <2>8 DEF Free
<1>2. AccountInv => [~misused /\ phys_alloc_page /\ ret' = 0 => Free = {}]_vars
  BY <1>1
<1> QED BY <1>2, AccountAlways, PTL DEF ZeroMeansExhausted

-----------------------------------------------------------------------------
(* RAM.                                                                    *)

(* A page the parser cleared for a usable entry.                           *)
RamPage(p) == \E i \in DOMAIN mmap : Usable(mmap[i]) /\ p \in PagesOf(mmap[i])

(* Given a map, the pages that can be handed out and those that have been  *)
(* were cleared for an entry of it; a misused release also clears page 0.  *)
RamInv == mmap # << >> /\ ~misused => \A p \in Free \cup owned : RamPage(p)

(* A whole page that a usable entry holds has every byte in that entry.    *)
LEMMA PageInEntry ==
  ASSUME NEW e \in Entry, e.addr % PAGE_SIZE = 0,
         NEW p \in PagesOf(e),
         NEW b \in p * PAGE_SIZE .. (p + 1) * PAGE_SIZE - 1
  PROVE  e.addr <= b /\ b < e.addr + e.len
<1> DEFINE a == e.addr \div PAGE_SIZE
           n == e.len \div PAGE_SIZE
<1>1. e.addr \in Nat /\ e.len \in Nat /\ p \in Nat /\ PAGE_SIZE \in Nat \ {0}
  BY PhysAssumption DEF Entry, PagesOf, Page
<1>2. a \in Nat /\ n \in Nat /\ n * PAGE_SIZE <= e.len
  BY <1>1, DivBounds
<1>3. e.addr = a * PAGE_SIZE
  BY <1>1
<1>4. a <= p /\ p + 1 <= a + n
  BY <1>1, <1>2 DEF PagesOf
<1> HIDE DEF a, n
<1>5. a * PAGE_SIZE <= p * PAGE_SIZE
  BY <1>1, <1>2, <1>4, PagesArithmetic
<1>6. (p + 1) * PAGE_SIZE <= (a + n) * PAGE_SIZE
  <2>1. p + 1 \in Nat /\ a + n \in Nat
    BY <1>1, <1>2
  <2> QED BY <2>1, <1>4, PagesArithmetic
<1>7. (a + n) * PAGE_SIZE = a * PAGE_SIZE + n * PAGE_SIZE
  BY <1>1, <1>2, PagesArithmetic
<1>8. /\ a * PAGE_SIZE \in Nat /\ p * PAGE_SIZE \in Nat
      /\ n * PAGE_SIZE \in Nat /\ (p + 1) * PAGE_SIZE \in Nat
  BY <1>1, <1>2, PagesArithmetic
<1> DEFINE lo == p * PAGE_SIZE
           hi == (p + 1) * PAGE_SIZE
<1> HIDE DEF lo, hi
<1>9. b \in Int /\ lo <= b /\ b <= hi - 1
  BY <1>8 DEF lo, hi
<1> QED BY <1>1, <1>2, <1>3, <1>5, <1>6, <1>7, <1>8, <1>9 DEF lo, hi

(* Whatever becomes free or owned was free or owned, but for the pages of  *)
(* the entry being parsed.                                                 *)
LEMMA NextRam == AccountInv /\ RamInv /\ [Next]_vars => RamInv'
<1> SUFFICES ASSUME AccountInv, RamInv, [Next]_vars,
                    (mmap # << >>)', ~misused',
                    NEW p \in (Free \cup owned)'
             PROVE  RamPage(p)'
  BY DEF RamInv
<1>1. TypeOK /\ TypeOK'
  BY NextAccount DEF AccountInv, PhysInv
<1>2. p \in Page
  BY <1>1 DEF Free, TypeOK
<1>3. mmap' = mmap
  BY DEF Next, vars, ParseEntry, ParseDone, Fallback, ReserveRange, InitDone,
         phys_alloc_page, ClientFree, phys_free_page
<1>4. misused' # misused => misused'
  BY DEF Next, vars, ParseEntry, ParseDone, Fallback, ReserveRange, InitDone,
         phys_alloc_page, ClientFree, phys_free_page
<1>5. mmap # << >> /\ ~misused
  BY <1>3, <1>4
<1>6. SUFFICES ASSUME ~(p \in Free \cup owned) PROVE RamPage(p)
  <2>1. RamPage(p)' <=> RamPage(p)
    BY <1>3 DEF RamPage, Usable, PagesOf
  <2> QED BY <1>5, <1>6, <2>1 DEF RamInv
<1>7. p \in page_bitmap /\ p \notin owned
  BY <1>2, <1>6 DEF Free
<1>8. p \in owned' \/ p \notin page_bitmap'
  BY DEF Free
<1>9. CASE ParseEntry
  <2>1. owned' = owned /\ step[2] \in DOMAIN mmap
    BY <1>9 DEF ParseEntry
  <2>2. p \notin page_bitmap'
    BY <1>7, <1>8, <2>1
  <2>3. Usable(mmap[step[2]]) /\ p \in PagesOf(mmap[step[2]])
    BY <1>7, <1>9, <2>2 DEF ParseEntry
  <2> QED BY <2>1, <2>3 DEF RamPage
<1>10. CASE ReserveRange
  BY <1>7, <1>8, <1>10 DEF ReserveRange, mark_range_reserved
<1>11. CASE phys_alloc_page
  <2>1. CASE Free = {}
    BY <1>7, <1>8, <1>11, <2>1 DEF phys_alloc_page
  <2>2. CASE Free # {}
    <3>1. Lowest(Free) \in Free
      BY <2>2, LowestIn DEF Free
    <3> QED BY <1>6, <1>7, <1>8, <1>11, <2>2, <3>1 DEF phys_alloc_page, Take
  <2> QED BY <2>1, <2>2
<1>12. CASE ClientFree
  <2>1. PICK q \in owned : phys_free_page(q * PAGE_SIZE)
    BY <1>12, ~misused' DEF ClientFree
  <2>2. q \in Nat
    BY <1>1 DEF TypeOK, Page
  <2>3. (q * PAGE_SIZE) \div PAGE_SIZE = q
    BY <2>2, PagesArithmetic
  <2>4. GiveBack(q) /\ owned' = owned \ {q}
    BY <2>1, <2>3 DEF phys_free_page
  <2> QED BY <1>7, <1>8, <2>1, <2>4 DEF GiveBack
<1>13. CASE ParseDone \/ InitDone \/ UNCHANGED vars
  BY <1>7, <1>8, <1>13 DEF ParseDone, InitDone, vars
<1>14. CASE Fallback
  BY <1>5, <1>14 DEF Fallback
<1> QED BY <1>9, <1>10, <1>11, <1>12, <1>13, <1>14 DEF Next

(* Given a map whose usable entries begin on a page boundary, every byte   *)
(* of a page a client holds is RAM, until a client gives back a failed 0.  *)
THEOREM OwnedIsRamAlways == Spec => []OwnedIsRam
<1>1. Init => RamInv
  BY DEF Init, RamInv, Free
<1>2. AccountInv /\ RamInv => OwnedIsRam
  <2> SUFFICES ASSUME TypeOK, ~misused, mmap # << >>, Aligned(mmap), RamInv,
                      NEW p \in owned,
                      NEW b \in p * PAGE_SIZE .. (p + 1) * PAGE_SIZE - 1
               PROVE  IsRam(b)
    BY DEF OwnedIsRam, AccountInv, PhysInv
  <2>1. PICK i \in DOMAIN mmap : Usable(mmap[i]) /\ p \in PagesOf(mmap[i])
    BY DEF RamInv, RamPage
  <2>2. mmap[i] \in Entry
    BY PhysAssumption DEF TypeOK
  <2>3. mmap[i].addr % PAGE_SIZE = 0
    BY <2>1 DEF Aligned
  <2>4. mmap[i].addr <= b /\ b < mmap[i].addr + mmap[i].len
    BY <2>1, <2>2, <2>3, PageInEntry
  <2> QED BY <2>1, <2>4 DEF IsRam, Usable
<1> QED BY <1>1, <1>2, NextRam, AccountAlways, PTL DEF Spec

-----------------------------------------------------------------------------
(* The arithmetic of paging.                                               *)

(* Division of a product by a product.                                     *)
LEMMA DivDiv ==
  ASSUME NEW a \in Nat, NEW m \in Nat \ {0}, NEW n \in Nat \ {0}
  PROVE  (a \div m) \div n = a \div (n * m)
<1> DEFINE q == a \div m  r == a % m  p == q \div n  s == q % n
<1>1. /\ q \in Nat /\ r \in Nat /\ a = m * q + r /\ r < m
      /\ p \in Nat /\ s \in Nat /\ q = n * p + s /\ s < n
  OBVIOUS
<1> HIDE DEF q, r, p, s
<1>2. n * m \in Nat \ {0}
  OBVIOUS
<1>3. a = (n * m) * p + (m * s + r)
  BY <1>1
<1>4. m * s + r \in Nat /\ m * s + r < n * m
  <2>1. s + 1 <= n
    BY <1>1
  <2>2. m * (s + 1) <= m * n
    BY <2>1, <1>1
  <2> QED BY <2>2, <1>1
<1>5. a \div (n * m) = p
  BY <1>1, <1>2, <1>3, <1>4
<1> QED BY <1>5 DEF p, q

LEMMA ModOfSum ==
  ASSUME NEW n \in Nat \ {0}, NEW k \in Nat, NEW x \in Nat, x < n
  PROVE  (n * k + x) % n = x
<1>1. (n * k + x) \div n = k
  OBVIOUS
<1> QED BY <1>1

(* The low and the high word put together are the address (boot.asm:118).  *)
LEMMA HugePageExact ==
  ASSUME NEW i \in Nat
  PROVE  HugePage(i) = i * HUGE
<1> DEFINE q == WORD \div HUGE  k == i \div q  r == i % q
<1>1. HUGE \in Nat \ {0} /\ WORD \in Nat \ {0} /\ WORD % HUGE = 0
  BY BootAssumption
<1>2. q \in Nat \ {0} /\ WORD = q * HUGE
  BY <1>1
<1> HIDE DEF q
<1>3. k \in Nat /\ r \in Nat /\ i = q * k + r /\ r < q
  BY <1>2
<1> HIDE DEF k, r
<1>4. i * HUGE = WORD * k + r * HUGE
  BY <1>1, <1>2, <1>3
<1>5. r * HUGE \in Nat /\ r * HUGE < WORD
  BY <1>1, <1>2, <1>3
<1>6. (i * HUGE) % WORD = r * HUGE
  BY <1>1, <1>3, <1>4, <1>5, ModOfSum
<1>7. HugePage(i) = ((i * HUGE) % WORD) + WORD * k
  BY DEF HugePage, k, q
<1> QED BY <1>1, <1>3, <1>4, <1>5, <1>6, <1>7

-----------------------------------------------------------------------------
(* Paging.                                                                 *)

(* How far the tables and the control registers are at each point.         *)
Before == {"start", "no_multiboot", "setup_paging"}
PagingInv ==
  /\ cpu = [pae |-> pc \notin Before \cup {"pae"},
            cr3 |-> pc \notin Before \cup {"pae", "cr3"},
            lme |-> pc \notin Before \cup {"pae", "cr3", "lme"},
            pg  |-> pc \notin Before \cup {"pae", "cr3", "lme", "pg"}]
  /\ pc \notin Before =>
       /\ pdpt = [k \in 0 .. Directories - 1 |-> k * ENTRIES]
       /\ pd = [i \in 0 .. Directories * ENTRIES - 1 |-> HugePage(i)]

LEMMA PagingInit == BootInit => PagingInv
  BY DEF BootInit, PagingInv, Before

LEMMA PagingStep == PagingInv /\ [BootNext]_<<vars, bootVars>> => PagingInv'
<1> SUFFICES ASSUME PagingInv, [BootNext]_<<vars, bootVars>>
             PROVE  PagingInv'
  OBVIOUS
<1> USE DEF PagingInv, Before
<1>1. CASE CheckMagic
  BY <1>1 DEF CheckMagic, At
<1>2. CASE setup_paging
  BY <1>2 DEF setup_paging, At
<1>3. CASE EnterLongMode
  BY <1>3 DEF EnterLongMode, Control, At
<1>4. CASE PhysInit
  BY <1>4 DEF PhysInit
<1>5. CASE VbeInit
  BY <1>5 DEF VbeInit, vbe_init, At
<1>6. CASE SetMode
  BY <1>6 DEF SetMode, Dispi, At
<1>7. CASE Clients
  BY <1>7 DEF Clients, bootVars
<1>8. CASE Hang
  BY <1>8 DEF Hang, bootVars
<1>9. CASE UNCHANGED <<vars, bootVars>>
  BY <1>9 DEF bootVars
<1> QED BY <1>1, <1>2, <1>3, <1>4, <1>5, <1>6, <1>7, <1>8, <1>9 DEF BootNext

(* The walk of an address through the tables that setup_paging builds.     *)
LEMMA WalkExact ==
  ASSUME pdpt = [k \in 0 .. Directories - 1 |-> k * ENTRIES],
         pd = [i \in 0 .. Directories * ENTRIES - 1 |-> HugePage(i)],
         NEW v \in Mapped
  PROVE  Translate(v) = v
<1> DEFINE n == v \div HUGE  d == n \div ENTRIES  e == n % ENTRIES
<1>1. HUGE \in Nat \ {0} /\ ENTRIES \in Nat \ {0} /\ v \in Nat /\ v < 4 * ENTRIES * HUGE
  BY BootAssumption DEF Mapped, Directories
<1>2. n \in Nat /\ v % HUGE \in Nat /\ v = HUGE * n + (v % HUGE)
  BY <1>1
<1>3. n < 4 * ENTRIES
  <2>1. HUGE * n < HUGE * (4 * ENTRIES)
    BY <1>1, <1>2
  <2> QED BY <2>1, <1>1, <1>2
<1>4. v \div (ENTRIES * HUGE) = d
  BY <1>1, DivDiv
<1> HIDE DEF n
<1>5. d \in Nat /\ e \in Nat /\ n = ENTRIES * d + e /\ e < ENTRIES
  BY <1>1, <1>2
<1> HIDE DEF d, e
<1>6. d < 4
  <2>1. ENTRIES * d < ENTRIES * 4
    BY <1>1, <1>3, <1>5, <1>2
  <2> QED BY <2>1, <1>1, <1>5
<1>7. pdpt[d] = d * ENTRIES
  BY <1>5, <1>6 DEF Directories
<1>8. pdpt[d] + e = n
  BY <1>1, <1>5, <1>7
<1>9. pd[n] = n * HUGE
  <2>1. n \in 0 .. Directories * ENTRIES - 1
    BY <1>1, <1>2, <1>3 DEF Directories
  <2> QED BY <2>1, <1>2, HugePageExact
<1>10. Translate(v) = pd[pdpt[d] + e] + (v % HUGE)
  BY <1>4 DEF Translate, n, e
<1> QED BY <1>1, <1>2, <1>8, <1>9, <1>10

(* From the moment paging is on, every address of the 4 GB is its own      *)
(* translation, for every size of pages and tables, and the processor was  *)
(* ready for it (boot.asm:63-79, 101-127).                                 *)
THEOREM PagingIsIdentityAlways == BootSpec => []PagingIsIdentity
<1>1. PagingInv => PagingIsIdentity
  <2> SUFFICES ASSUME PagingInv, cpu.pg
               PROVE  /\ cpu.pae /\ cpu.cr3 /\ cpu.lme
                      /\ \A v \in Mapped : Translate(v) = v
    BY DEF PagingIsIdentity
  <2>1. pc \notin Before /\ cpu.pae /\ cpu.cr3 /\ cpu.lme
    BY DEF PagingInv, Before
  <2>2. /\ pdpt = [k \in 0 .. Directories - 1 |-> k * ENTRIES]
        /\ pd = [i \in 0 .. Directories * ENTRIES - 1 |-> HugePage(i)]
    BY <2>1 DEF PagingInv
  <2> QED BY <2>1, <2>2, WalkExact
<1> QED BY <1>1, PagingInit, PagingStep, PTL DEF BootSpec

-----------------------------------------------------------------------------
(* The allocator inside the boot.                                          *)

(* Whatever the boot does, the allocator only ever sees its own steps, so  *)
(* everything proved of it holds here (kernel.c:51).                       *)
THEOREM BootRunsPhys == BootSpec => Spec
<1>1. BootInit => Init
  BY DEF BootInit
<1>2. [BootNext]_<<vars, bootVars>> => [Next]_vars
  <2> SUFFICES ASSUME [BootNext]_<<vars, bootVars>>
               PROVE  [Next]_vars
    OBVIOUS
  <2>1. CASE CheckMagic
    BY <2>1 DEF CheckMagic, At
  <2>2. CASE setup_paging
    BY <2>2 DEF setup_paging, At
  <2>3. CASE EnterLongMode
    BY <2>3 DEF EnterLongMode, Control, At
  <2>4. CASE PhysInit
    BY <2>4 DEF PhysInit, Next
  <2>5. CASE VbeInit
    BY <2>5 DEF VbeInit, vbe_init, At
  <2>6. CASE SetMode
    BY <2>6 DEF SetMode, Dispi, At
  <2>7. CASE Clients
    BY <2>7 DEF Clients, Next
  <2>8. CASE Hang
    BY <2>8 DEF Hang
  <2> QED BY <2>1, <2>2, <2>3, <2>4, <2>5, <2>6, <2>7, <2>8 DEF BootNext
<1> QED BY <1>1, <1>2, PTL DEF BootSpec, Spec

(* The mode consists of numbers.                                           *)
ModeInv == loader \in Loaders /\ fb.h \in Nat /\ fb.pitch \in Nat

LEMMA ModeAlways == BootSpec => []ModeInv
<1>1. BootInit => ModeInv
  BY BootAssumption DEF BootInit, ModeInv
<1>2. ModeInv /\ [BootNext]_<<vars, bootVars>> => ModeInv'
  <2> SUFFICES ASSUME ModeInv, [BootNext]_<<vars, bootVars>>
               PROVE  ModeInv'
    OBVIOUS
  <2> USE DEF ModeInv
  <2>1. CASE CheckMagic \/ setup_paging \/ EnterLongMode \/ SetMode
    BY <2>1 DEF CheckMagic, setup_paging, EnterLongMode, Control, SetMode, Dispi, At
  <2>2. CASE PhysInit \/ Clients
    BY <2>2 DEF PhysInit, Clients, bootVars
  <2>3. CASE VbeInit
    <3>1. \A v, old \in Nat : Given(v, old) \in Nat
      BY DEF Given
    <3>2. \A a, b, c, d : c \in Nat /\ d \in Nat /\ vbe_init(a, b, c, d) => ModeInv'
      <4> SUFFICES ASSUME NEW a, NEW b, NEW c \in Nat, NEW d \in Nat, vbe_init(a, b, c, d)
                   PROVE  ModeInv'
        OBVIOUS
      <4>1. d \div 4 \in Nat
        OBVIOUS
      <4>2. /\ loader' = loader /\ fb'.h = Given(c, fb.h)
            /\ fb'.pitch = IF d > 0 THEN d \div 4 ELSE fb.pitch
        BY DEF vbe_init, At
      <4> QED BY <3>1, <4>1, <4>2
    <3>3. /\ loader.fb.h \in Nat /\ loader.fb.pitch \in Nat
          /\ DefaultMode.h \in Nat /\ DefaultMode.pitch \in Nat
      BY BootAssumption
    <3> QED BY <2>3, <3>2, <3>3 DEF VbeInit
  <2>4. CASE Hang \/ UNCHANGED <<vars, bootVars>>
    BY <2>4 DEF Hang, bootVars
  <2> QED BY <2>1, <2>2, <2>3, <2>4 DEF BootNext
<1> QED BY <1>1, <1>2, PTL DEF BootSpec

(* No page a client holds has a byte of a frame that fits the 32 MB set    *)
(* aside for it, for every memory map, loader and mode (vbe.c:25, 38;      *)
(* phys.c:94), until a client releases the 0 of a failed call.             *)
THEOREM BackbufferReservedAlways == BootSpec => []BackbufferReserved
<1>1. PhysInv /\ OwnedSafe /\ ModeInv => BackbufferReserved
  <2> SUFFICES ASSUME PhysInv, OwnedSafe, ModeInv, ~misused,
                      4 * fb.h * fb.pitch <= QOS_BACKBUFFER_BYTES,
                      NEW p \in owned, Touches(p, Frame)
               PROVE  FALSE
    BY DEF BackbufferReserved, Frame
  <2>1. p \in Page /\ p \in Nat
    BY DEF PhysInv, TypeOK, Page
  <2>2. PICK i \in DOMAIN Ranges :
          Ranges[i] = [start |-> QOS_BACKBUFFER_BASE, size |-> QOS_BACKBUFFER_BYTES]
    BY BootAssumption
  <2>3. 4 * fb.h * fb.pitch \in Nat
    BY DEF ModeInv
  <2>4. /\ p * PAGE_SIZE < QOS_BACKBUFFER_BASE + 4 * fb.h * fb.pitch
        /\ QOS_BACKBUFFER_BASE < (p + 1) * PAGE_SIZE
    BY DEF Touches, Frame
  <2>5. Touches(p, Ranges[i])
    BY <2>1, <2>2, <2>3, <2>4, PhysAssumption, BootAssumption DEF Touches
  <2> QED BY <2>1, <2>5 DEF ReservedPages, OwnedSafe
<1> QED BY <1>1, BootRunsPhys, AccountAlways, OwnedSafeAlways, ModeAlways, PTL DEF AccountInv

-----------------------------------------------------------------------------
(* The screen.                                                             *)

(* The scan has an end: of any slots one comes first.                      *)
LEMMA FirstSlot ==
  ASSUME NEW S \in SUBSET (Nat \X Nat), S # {}
  PROVE  \E s \in S : \A t \in S : Earlier(s, t)
<1>1. \A T \in SUBSET Nat : T # {} => \E n \in T : \A m \in T : n <= m
  <2> SUFFICES ASSUME NEW T \in SUBSET Nat, T # {}
               PROVE  \E n \in T : \A m \in T : n <= m
    OBVIOUS
  <2> DEFINE R == OpToRel(<, Nat)
  <2>1. \A x, y \in Nat : x < y => <<x, y>> \in R
    BY DEF OpToRel
  <2>2. IsWellFoundedOn(R, Nat)
    BY NatLessThanWellFounded
  <2> HIDE DEF R
  <2>3. PICK n \in T : \A m \in T : <<m, n>> \notin R
    BY <2>2, WFMin
  <2>4. ASSUME NEW m \in T PROVE n <= m
    <3>1. m \in Nat /\ n \in Nat /\ ~(m < n)
      BY <2>1, <2>3
    <3> QED BY <3>1
  <2> QED BY <2>4
<1> DEFINE Devices == {s[1] : s \in S}
<1>2. Devices \in SUBSET Nat /\ Devices # {}
  OBVIOUS
<1>3. PICK d \in Devices : \A m \in Devices : d <= m
  BY <1>1, <1>2
<1> DEFINE Functions == {n \in Nat : <<d, n>> \in S}
<1>4. Functions \in SUBSET Nat /\ Functions # {}
  <2>1. PICK s \in S : d = s[1]
    BY <1>3
  <2>2. s = <<d, s[2]>> /\ s[2] \in Nat
    BY <2>1
  <2> QED BY <2>2
<1>5. PICK n \in Functions : \A m \in Functions : n <= m
  BY <1>1, <1>4
<1>6. ASSUME NEW t \in S PROVE Earlier(<<d, n>>, t)
  <2>1. t = <<t[1], t[2]>> /\ t[1] \in Nat /\ t[2] \in Nat /\ d \in Nat
    BY <1>2
  <2>2. t[1] \in Devices
    OBVIOUS
  <2>3. d <= t[1]
    BY <1>3, <2>2
  <2>4. CASE t[1] = d
    <3>1. t[2] \in Functions
      BY <2>1, <2>4
    <3>2. n <= t[2]
      BY <1>5, <3>1
    <3> QED BY <2>4, <3>2 DEF Earlier
  <2>5. CASE t[1] # d
    BY <2>1, <2>3, <2>5 DEF Earlier
  <2> QED BY <2>4, <2>5
<1> QED BY <1>5, <1>6

(* If nothing on the bus suits but the adapter, the probe finds it.        *)
LEMMA ProbeFindsAdapter ==
  ASSUME bus \in Buses, OnlyAdapter
  PROVE  pci_find_vga_lfb = bus.aperture
<1>1. /\ DOMAIN bus.at \subseteq Nat \X Nat
      /\ \A s \in DOMAIN bus.at : Looked(s)
  BY BoardAssumption DEF Looked
<1>2. CASE Suitable = {}
  <2>1. ~\E s \in DOMAIN bus.at : Suits(bus.at[s])
    BY <1>1, <1>2 DEF Suitable
  <2> QED BY <1>2, <2>1 DEF OnlyAdapter, pci_find_vga_lfb
<1>3. CASE Suitable # {}
  <2> DEFINE first == CHOOSE s \in Suitable : \A t \in Suitable : Earlier(s, t)
  <2>1. Suitable \in SUBSET (Nat \X Nat)
    BY <1>1 DEF Suitable
  <2>2. first \in Suitable
    BY <1>3, <2>1, FirstSlot
  <2>3. first \in DOMAIN bus.at /\ Suits(bus.at[first])
    BY <2>2 DEF Suitable
  <2>4. pci_find_vga_lfb = bus.at[first].bar
    BY <1>3 DEF pci_find_vga_lfb
  <2> QED BY <2>3, <2>4 DEF OnlyAdapter
<1> QED BY <1>2, <1>3

(* What is drawn on and what is shown, at each point of the boot: first    *)
(* the statics and the loader's mode; then either that mode taken over, or *)
(* the default one, written to the adapter register by register.           *)
Writing == {"disable", "xres", "yres", "bpp", "enable"}
Drawn(base, w, h, pitch, external) ==
  fb = [lfb |-> base, w |-> w, h |-> h, pitch |-> pitch, external |-> external]
ShownInv ==
  /\ loader \in Loaders /\ bus \in Buses /\ adapter \in Mode
  /\ pc \notin Writing \cup {"online"} =>
       /\ adapter = loader.mode
       /\ Drawn(QOS_DEFAULT_LFB_PHYS, DefaultMode.w, DefaultMode.h, DefaultMode.pitch \div 4, FALSE)
  /\ pc \in Writing \cup {"online"} /\ ~Accepted =>
       Drawn(pci_find_vga_lfb, DefaultMode.w, DefaultMode.h, DefaultMode.pitch \div 4, FALSE)
  /\ pc \in Writing => ~Accepted
  /\ pc \in Writing \ {"disable"} => ~adapter.on
  /\ pc \in {"yres", "bpp", "enable"} => adapter.w = fb.w
  /\ pc \in {"bpp", "enable"} => adapter.h = fb.h
  /\ pc = "enable" => adapter.bpp = 32
  /\ pc = "online" /\ Accepted =>
       /\ Describes(loader.fb, adapter)
       /\ Drawn(loader.fb.base, loader.fb.w, loader.fb.h, loader.fb.pitch \div 4, TRUE)
  /\ pc = "online" /\ ~Accepted =>
       adapter = [on |-> TRUE, base |-> bus.aperture, w |-> fb.w, h |-> fb.h,
                  pitch |-> 4 * fb.w, bpp |-> 32]

(* vbe_init, whatever mode it is given.                                    *)
LEMMA VbeInitShown == ShownInv /\ VbeInit => ShownInv'
<1> SUFFICES ASSUME ShownInv, VbeInit PROVE ShownInv'
  OBVIOUS
<1>1. /\ pc = "vbe_init" /\ loader \in Loaders /\ bus \in Buses /\ adapter \in Mode
      /\ adapter = loader.mode
      /\ fb.w = DefaultMode.w /\ fb.h = DefaultMode.h
  BY DEF ShownInv, VbeInit, vbe_init, At, Writing, Drawn
<1>2. UNCHANGED <<loader, bus, adapter>>
  BY DEF VbeInit, vbe_init, At
<1>3. Accepted' = Accepted /\ pci_find_vga_lfb' = pci_find_vga_lfb
  BY <1>2 DEF Accepted, pci_find_vga_lfb, Suitable, Looked, Suits
<1>4. CASE Accepted
  <2>1. Describes(loader.fb, adapter)
    BY <1>1, <1>4, BoardAssumption DEF Accepted
  <2>2. vbe_init(loader.fb.base, loader.fb.w, loader.fb.h, loader.fb.pitch) /\ loader.fb.base # 0
    BY <1>4 DEF VbeInit, Accepted
  <2>3. pc' = "online" /\ fb' = [lfb |-> loader.fb.base, w |-> loader.fb.w, h |-> loader.fb.h,
                                 pitch |-> loader.fb.pitch \div 4, external |-> TRUE]
    BY <2>1, <2>2 DEF vbe_init, At, Given, Describes
  <2> QED BY <1>1, <1>2, <1>3, <1>4, <2>1, <2>3 DEF ShownInv, Writing, Drawn
<1>5. CASE ~Accepted
  <2>1. vbe_init(0, DefaultMode.w, DefaultMode.h, DefaultMode.pitch)
    BY <1>5 DEF VbeInit
  <2>2. DefaultMode.w > 0 /\ DefaultMode.h > 0 /\ DefaultMode.pitch > 0
    BY BoardAssumption
  <2>3. pc' = "disable" /\ fb' = [lfb |-> pci_find_vga_lfb, w |-> DefaultMode.w, h |-> DefaultMode.h,
                                  pitch |-> DefaultMode.pitch \div 4, external |-> FALSE]
    BY <2>1, <2>2 DEF vbe_init, At, Given
  <2> QED BY <1>1, <1>2, <1>3, <1>5, <2>3 DEF ShownInv, Writing, Drawn
<1> QED BY <1>4, <1>5

(* bochs_vbe_set_mode, one register after the other.                       *)
LEMMA SetModeShown == ShownInv /\ SetMode => ShownInv'
<1> SUFFICES ASSUME ShownInv, SetMode PROVE ShownInv'
  OBVIOUS
<1>1. UNCHANGED <<loader, bus, fb>>
  BY DEF SetMode, Dispi, At
<1>2. Accepted' = Accepted /\ pci_find_vga_lfb' = pci_find_vga_lfb
  BY <1>1 DEF Accepted, pci_find_vga_lfb, Suitable, Looked, Suits
<1>3. pc \in Writing
  BY DEF SetMode, Dispi, At, Writing
<1>4. /\ ~Accepted /\ adapter \in Mode /\ loader \in Loaders /\ bus \in Buses
      /\ Drawn(pci_find_vga_lfb, DefaultMode.w, DefaultMode.h, DefaultMode.pitch \div 4, FALSE)
  BY <1>3 DEF ShownInv
<1>5. fb.w \in Nat /\ fb.h \in Nat /\ Drawn(pci_find_vga_lfb, DefaultMode.w, DefaultMode.h, DefaultMode.pitch \div 4, FALSE)'
  BY <1>1, <1>2, <1>4, BoardAssumption DEF Drawn
<1> USE DEF Mode, Writing, Dispi, At
<1>6. CASE pc = "disable"
  <2>1. pc' = "xres" /\ adapter' = [adapter EXCEPT !.on = FALSE]
    BY <1>6 DEF SetMode, Disable
  <2> QED BY <1>1, <1>2, <1>4, <1>5, <2>1 DEF ShownInv
<1>7. CASE pc = "xres"
  <2>1. pc' = "yres" /\ adapter' = [adapter EXCEPT !.w = fb.w] /\ ~adapter.on
    BY <1>7 DEF SetMode, Write, ShownInv
  <2> QED BY <1>1, <1>2, <1>4, <1>5, <2>1 DEF ShownInv
<1>8. CASE pc = "yres"
  <2>1. pc' = "bpp" /\ adapter' = [adapter EXCEPT !.h = fb.h] /\ ~adapter.on /\ adapter.w = fb.w
    BY <1>8 DEF SetMode, Write, ShownInv
  <2> QED BY <1>1, <1>2, <1>4, <1>5, <2>1 DEF ShownInv
<1>9. CASE pc = "bpp"
  <2>1. /\ pc' = "enable" /\ adapter' = [adapter EXCEPT !.bpp = 32]
        /\ ~adapter.on /\ adapter.w = fb.w /\ adapter.h = fb.h
    BY <1>9 DEF SetMode, Write, ShownInv
  <2> QED BY <1>1, <1>2, <1>4, <1>5, <2>1 DEF ShownInv
<1>10. CASE pc = "enable"
  <2>1. pc' = "online" /\ adapter' = [adapter EXCEPT !.on = TRUE, !.base = bus.aperture, !.pitch = 4 * adapter.w]
    BY <1>10 DEF SetMode
  <2>2. adapter.w = fb.w /\ adapter.h = fb.h /\ adapter.bpp = 32
    BY <1>10 DEF ShownInv
  <2>3. adapter' = [on |-> TRUE, base |-> bus.aperture, w |-> fb.w, h |-> fb.h,
                    pitch |-> 4 * fb.w, bpp |-> 32]
    BY <1>4, <2>1, <2>2
  <2>4. adapter' \in Mode
    <3>1. bus.aperture \in Nat /\ 4 * fb.w \in Nat
      BY <1>4, <1>5, BoardAssumption
    <3> QED BY <1>5, <2>3, <3>1
  <2> QED BY <1>1, <1>2, <1>4, <1>5, <2>1, <2>3, <2>4 DEF ShownInv
<1> QED BY <1>3, <1>6, <1>7, <1>8, <1>9, <1>10

LEMMA NextShown == ShownInv /\ [BootNext]_<<vars, bootVars>> => ShownInv'
<1> SUFFICES ASSUME ShownInv, [BootNext]_<<vars, bootVars>>, ~VbeInit, ~SetMode
             PROVE  ShownInv'
  BY VbeInitShown, SetModeShown
<1>1. /\ UNCHANGED <<loader, bus, fb, adapter>>
      /\ \/ pc \notin Writing \cup {"online"} /\ pc' \notin Writing \cup {"online"}
         \/ pc' = pc
  <2>1. CASE CheckMagic \/ setup_paging
    BY <2>1 DEF CheckMagic, setup_paging, At, Writing
  <2>2. CASE EnterLongMode
    BY <2>2 DEF EnterLongMode, Control, At, Writing
  <2>3. CASE PhysInit
    BY <2>3 DEF PhysInit, Writing
  <2>4. CASE Clients \/ Hang \/ UNCHANGED <<vars, bootVars>>
    BY <2>4 DEF Clients, Hang, bootVars
  <2> QED BY <2>1, <2>2, <2>3, <2>4 DEF BootNext
<1>2. /\ Accepted' = Accepted /\ pci_find_vga_lfb' = pci_find_vga_lfb
      /\ \A a, b, c, d, e : Drawn(a, b, c, d, e)' = Drawn(a, b, c, d, e)
  BY <1>1 DEF Accepted, pci_find_vga_lfb, Suitable, Looked, Suits, Drawn
<1> QED BY <1>1, <1>2 DEF ShownInv, Drawn, Writing

(* When the kernel is up the adapter shows the buffer, the size and the    *)
(* layout that is drawn, in the loader's mode or the default one, on every *)
(* bus where nothing but the adapter suits.                                *)
THEOREM ShownAsDrawnAlways == BootSpec => []ShownAsDrawn
<1>1. BootInit => ShownInv
  <2> SUFFICES ASSUME BootInit PROVE ShownInv
    OBVIOUS
  <2>1. loader \in Loaders /\ bus \in Buses /\ adapter = loader.mode /\ pc = "start"
    BY DEF BootInit
  <2>2. adapter \in Mode
    <3>1. \A l \in Loaders : l.mode \in Mode
      BY BoardAssumption, Zenon
    <3> QED BY <2>1, <3>1
  <2>3. Drawn(QOS_DEFAULT_LFB_PHYS, DefaultMode.w, DefaultMode.h, DefaultMode.pitch \div 4, FALSE)
    BY DEF BootInit, Drawn
  <2> QED BY <2>1, <2>2, <2>3 DEF ShownInv, Writing
<1>2. ShownInv => ShownAsDrawn
  <2> SUFFICES ASSUME ShownInv, pc = "online", Accepted \/ OnlyAdapter
               PROVE  /\ adapter.on /\ adapter.bpp = 32
                      /\ adapter.base = fb.lfb
                      /\ adapter.w = fb.w /\ adapter.h = fb.h /\ adapter.pitch = 4 * fb.pitch
    BY DEF ShownAsDrawn
  <2>1. CASE Accepted
    <3>1. Describes(loader.fb, adapter) /\ loader.fb.bpp = 32
      BY <2>1 DEF ShownInv, Accepted
    <3>2. Drawn(loader.fb.base, loader.fb.w, loader.fb.h, loader.fb.pitch \div 4, TRUE)
      BY <2>1 DEF ShownInv
    <3>3. loader.fb.pitch = 4 * (loader.fb.pitch \div 4)
      <4>1. loader.fb.pitch \in Nat
        BY BootAssumption DEF ShownInv
      <4> QED BY <3>1, <4>1 DEF Describes
    <3> QED BY <3>1, <3>2, <3>3 DEF Describes, Drawn
  <2>2. CASE ~Accepted
    <3>1. adapter = [on |-> TRUE, base |-> bus.aperture, w |-> fb.w, h |-> fb.h,
                     pitch |-> 4 * fb.w, bpp |-> 32]
      BY <2>2 DEF ShownInv
    <3>2. fb.lfb = pci_find_vga_lfb /\ fb.w = DefaultMode.w /\ fb.pitch = DefaultMode.pitch \div 4
      BY <2>2 DEF ShownInv, Writing, Drawn
    <3>3. DefaultMode.pitch \div 4 = DefaultMode.w
      BY BoardAssumption
    <3>4. fb.lfb = bus.aperture
      BY <2>2, <3>2, ProbeFindsAdapter DEF ShownInv
    <3> QED BY <3>1, <3>2, <3>3, <3>4
  <2> QED BY <2>1, <2>2
<1> QED BY <1>1, <1>2, NextShown, PTL DEF BootSpec

-----------------------------------------------------------------------------
(* The log: numerals.                                                      *)
Bases == {10, 16}
Byte == Letter \cup {"\r", "\n", "-", "0", "x", "%", "(", "n", "u", "l", ")"} \cup {Digits[i] : i \in 1 .. 16}

(* A number is its last digit and the others.                              *)
LEMMA LastDigit ==
  ASSUME NEW b \in Bases
  PROVE  /\ \A v \in Nat : v % b \in 0 .. b - 1 /\ v \div b \in Nat /\ v = b * (v \div b) + (v % b)
         /\ \A v \in Nat : v # 0 => v \div b < v
         /\ \A x \in Nat, d \in 0 .. b - 1 : (b * x + d) % b = d /\ (b * x + d) \div b = x
<1>1. CASE b = 10
  BY <1>1
<1>2. CASE b = 16
  BY <1>2
<1> QED BY <1>1, <1>2 DEF Bases

(* The table of digits holds bytes.                                        *)
LEMMA DigitIsByte == \A d \in 0 .. 15 : Digits[d + 1] \in Byte
<1> TAKE d \in 0 .. 15
<1>1. d + 1 \in 1 .. 16
  OBVIOUS
<1> QED BY <1>1, Zenon DEF Byte

(* The digits the loop of print_num leaves in buf, for each value it may   *)
(* come by (serial.c:46-55).                                               *)
Filled(buf, val, b) ==
  /\ buf \in [0 .. val -> Seq(Byte)]
  /\ buf[0] = << >>
  /\ \A v \in 1 .. val : buf[v] = <<Digits[(v % b) + 1]>> \o buf[v \div b]

(* There is such a filling, and the numeral is it read backwards.          *)
LEMMA NumeralFills ==
  ASSUME NEW val \in Nat, NEW b \in Bases
  PROVE  \E buf : Filled(buf, val, b) /\ Numeral(val, b) = IF val = 0 THEN <<"0">> ELSE Reverse(buf[val])
<1> DEFINE S == Seq(Byte)
           prev == [v \in 1 .. val |-> v \div b]
           body == [q \in S \X (1 .. val) |-> <<Digits[(q[2] % b) + 1]>> \o q[1]]
<1>1. prev \in Back(val) /\ \A v \in 1 .. val : prev[v] = v \div b /\ v \div b \in 0 .. val
  <2>1. \A v \in 1 .. val : v \div b \in Nat /\ v \div b < v
    BY LastDigit
  <2> QED BY <2>1 DEF Back
<1>2. body \in Steps(S, val) /\ \A s \in S, v \in 1 .. val : body[<<s, v>>] = <<Digits[(v % b) + 1]>> \o s
  <2>1. \A v \in 1 .. val : v % b \in 0 .. 15
    <3>1. \A v \in 1 .. val : v % b \in 0 .. b - 1
      BY LastDigit
    <3> QED BY <3>1 DEF Bases
  <2>2. \A s \in S, v \in 1 .. val : <<Digits[(v % b) + 1]>> \o s \in S
    <3> TAKE s \in S, v \in 1 .. val
    <3> DEFINE d == Digits[(v % b) + 1]
    <3>1. d \in Byte
      BY <2>1, DigitIsByte
    <3> HIDE DEF d
    <3>2. <<d>> \o s \in S
      BY <3>1
    <3> QED BY <3>2 DEF d
  <2> HIDE DEF S
  <2> QED BY <2>2 DEF Steps
<1>3. << >> \in S
  OBVIOUS
<1> HIDE DEF S, prev, body
<1>4. PICK buf \in [0 .. val -> S] :
        buf[0] = << >> /\ \A v \in 1 .. val : buf[v] = body[<<buf[prev[v]], v>>]
  <2>1. Falls(S, << >>, val, prev, body)
    BY <1>1, <1>2, <1>3, RecursionBack
  <2> QED BY <2>1, Zenon DEF Falls
<1>5. Filled(buf, val, b)
  <2>1. ASSUME NEW v \in 1 .. val
        PROVE  buf[v] = <<Digits[(v % b) + 1]>> \o buf[v \div b]
    <3>1. prev[v] = v \div b /\ buf[v \div b] \in S
      BY <1>1, <1>4
    <3> QED BY <1>2, <1>4, <3>1, Zenon
  <2> QED BY <1>4, <2>1, Zenon DEF Filled, S
<1> DEFINE Turn(f, v) == IF v = 0 THEN << >> ELSE <<Digits[(v % b) + 1]>> \o f[v \div b]
           f == CHOOSE f : f = [v \in 0 .. val |-> Turn(f, v)]
<1>6. \E g : g = [v \in 0 .. val |-> Turn(g, v)]
  <2>1. \A v \in 0 .. val : buf[v] = Turn(buf, v)
    <3> TAKE v \in 0 .. val
    <3>1. CASE v = 0
      BY <1>4, <3>1
    <3>2. CASE v # 0
      <4>1. v \in 1 .. val
        BY <3>2
      <4> QED BY <1>5, <3>2, <4>1, Zenon DEF Filled
    <3> QED BY <3>1, <3>2
  <2>2. buf = [v \in 0 .. val |-> buf[v]]
    BY <1>4, Zenon
  <2> QED BY <2>1, <2>2, Zenon
<1>7. f = [v \in 0 .. val |-> Turn(f, v)]
  BY <1>6, Zenon
<1>8. Numeral(val, b) = IF val = 0 THEN <<"0">> ELSE Reverse(f[val])
  BY Zenon DEF Numeral
<1> HIDE DEF f
<1>9. \A v \in 0 .. val : f[v] = Turn(f, v)
  BY <1>7, Zenon
<1>10. \A v \in Nat : v <= val => f[v] = buf[v]
  <2> DEFINE T == {v \in Nat : v <= val => f[v] = buf[v]}
  <2>1. ASSUME NEW v \in Nat, \A m \in Nat : m < v => m \in T
        PROVE  v \in T
    <3>1. CASE v = 0
      <4>1. f[0] = << >>
        BY <1>9
      <4> QED BY <1>4, <3>1, <4>1
    <3>2. CASE v # 0 /\ v <= val
      <4>1. v \in 1 .. val /\ v \in 0 .. val /\ v # 0
        BY <3>2
      <4>2. v \div b \in Nat /\ v \div b < v /\ v \div b <= val
        <5>1. v \div b \in Nat /\ v \div b < v
          BY <3>2, LastDigit
        <5> QED BY <3>2, <5>1
      <4>3. f[v \div b] = buf[v \div b]
        BY <2>1, <4>2
      <4>4. f[v] = <<Digits[(v % b) + 1]>> \o f[v \div b]
        BY <1>9, <4>1, Zenon
      <4>5. buf[v] = <<Digits[(v % b) + 1]>> \o buf[v \div b]
        BY <1>5, <4>1, Zenon DEF Filled
      <4> QED BY <4>3, <4>4, <4>5
    <3> QED BY <3>1, <3>2
  <2> HIDE DEF T
  <2>2. \A v \in Nat : v \in T
    BY <2>1, FromSmaller
  <2> QED BY <2>2 DEF T
<1>11. f[val] = buf[val]
  BY <1>10
<1> QED BY <1>5, <1>8, <1>11

(* The value of digits is their sum from the left.                         *)
Adds(v, ds, k, b) == v \in [0 .. k -> Nat] /\ v[0] = 0 /\ \A n \in 1 .. k : v[n] = b * v[n - 1] + ds[n]

(* There is such a sum, and it is the value,                               *)
LEMMA ValueAdds ==
  ASSUME NEW b \in Bases, NEW k \in Nat, NEW ds \in [1 .. k -> 0 .. b - 1]
  PROVE  \E v : Adds(v, ds, k, b) /\ ValueOf(ds, b) = v[k]
<1> DEFINE body == [q \in Nat \X (1 .. k) |-> b * q[1] + ds[q[2]]]
<1>0. \A x \in Nat, n \in 1 .. k : b * x + ds[n] \in Nat
  BY DEF Bases
<1>1. body \in Steps(Nat, k) /\ \A x \in Nat, n \in 1 .. k : body[<<x, n>>] = b * x + ds[n]
  <2>1. \A q \in Nat \X (1 .. k) : b * q[1] + ds[q[2]] \in Nat
    BY <1>0
  <2>2. body \in Steps(Nat, k)
    BY <2>1, Zenon DEF Steps
  <2> QED BY <2>2
<1> HIDE DEF body
<1>2. PICK v \in [0 .. k -> Nat] :
        v[0] = 0 /\ \A n \in 1 .. k : v[n] = body[<<v[n - 1], n>>]
  <2>1. Loop(Nat, 0, k, body)
    BY <1>1, Recursion
  <2> QED BY <2>1, Zenon DEF Loop
<1>3. \A n \in 1 .. k : v[n] = b * v[n - 1] + ds[n]
  <2> TAKE n \in 1 .. k
  <2>1. n - 1 \in 0 .. k
    OBVIOUS
  <2>2. v[n - 1] \in Nat
    BY <2>1
  <2> QED BY <1>1, <1>2, <2>2, Zenon
<1>4. Len(ds) = k
  <2> DEFINE D == 0 .. b - 1
  <2>1. ds \in [1 .. k -> D]
    OBVIOUS
  <2> HIDE DEF D
  <2> QED BY <2>1
<1> DEFINE Turn(f, n) == IF n = 0 THEN 0 ELSE b * f[n - 1] + ds[n]
           f == CHOOSE f : f = [n \in 0 .. k |-> Turn(f, n)]
<1>5. \E g : g = [n \in 0 .. k |-> Turn(g, n)]
  <2>1. \A n \in 0 .. k : v[n] = Turn(v, n)
    <3> TAKE n \in 0 .. k
    <3>1. CASE n = 0
      BY <1>2, <3>1
    <3>2. CASE n # 0
      <4>1. n \in 1 .. k
        BY <3>2
      <4> QED BY <1>3, <3>2, <4>1, Zenon
    <3> QED BY <3>1, <3>2
  <2>2. v = [n \in 0 .. k |-> v[n]]
    BY <1>2, Zenon
  <2> QED BY <2>1, <2>2, Zenon
<1>6. f = [n \in 0 .. k |-> Turn(f, n)]
  BY <1>5, Zenon
<1>7. ValueOf(ds, b) = f[k]
  <2>1. ValueOf(ds, b) = LET w == CHOOSE w : w = [n \in 0 .. Len(ds) |-> IF n = 0 THEN 0 ELSE b * w[n - 1] + ds[n]]
                         IN w[Len(ds)]
    BY Zenon DEF ValueOf
  <2> QED BY <1>4, <2>1, Zenon
<1> HIDE DEF f
<1>8. \A n \in 0 .. k : f[n] = Turn(f, n)
  BY <1>6, Zenon
<1> DEFINE T == {n \in 0 .. k : f[n] = v[n]}
<1>9. 0 \in T
  <2>1. 0 \in 0 .. k /\ f[0] = 0
    BY <1>8
  <2> QED BY <1>2, <2>1
<1>10. ASSUME NEW n \in 1 .. k, n - 1 \in T
       PROVE  n \in T
  <2>1. n \in 0 .. k /\ n # 0 /\ f[n - 1] = v[n - 1]
    BY <1>10
  <2>2. f[n] = b * f[n - 1] + ds[n]
    BY <1>8, <2>1, Zenon
  <2> QED BY <1>3, <2>1, <2>2
<1> HIDE DEF T
<1>11. \A n \in 0 .. k : n \in T
  BY <1>9, <1>10, HandedOn
<1>12. f[k] = v[k]
  BY <1>11 DEF T
<1> QED BY <1>2, <1>3, <1>7, <1>12, Zenon DEF Adds

(* and only one.                                                           *)
LEMMA AddsOnce ==
  ASSUME NEW b \in Bases, NEW k \in Nat, NEW ds \in [1 .. k -> 0 .. b - 1],
         NEW v, Adds(v, ds, k, b), NEW w, Adds(w, ds, k, b)
  PROVE  v[k] = w[k]
<1> DEFINE T == {n \in 0 .. k : v[n] = w[n]}
<1>1. 0 \in T
  BY DEF Adds
<1>2. ASSUME NEW n \in 1 .. k, n - 1 \in T
      PROVE  n \in T
  BY <1>2 DEF Adds
<1> HIDE DEF T
<1>3. \A n \in 0 .. k : n \in T
  BY <1>1, <1>2, HandedOn
<1> QED BY <1>3 DEF T

(* Every number has a numeral, of no more digits than its successor says.  *)
LEMMA NumeralExists ==
  ASSUME NEW b \in Bases
  PROVE  \A n \in Nat : \E k \in 1 .. n + 1 : Numerals(n, b, k) # {}
<1> DEFINE T == {n \in Nat : \E k \in 1 .. n + 1 : Numerals(n, b, k) # {}}
<1>1. ASSUME NEW n \in Nat, \A m \in Nat : m < n => m \in T
      PROVE  n \in T
  <2>1. CASE n < b
    <3> DEFINE ds == [i \in 1 .. 1 |-> n]
    <3>1. ds \in [1 .. 1 -> 0 .. b - 1] /\ ds[1] = n /\ 1 \in 1 .. 1 /\ 1 \in Nat
      BY <2>1 DEF Bases
    <3> HIDE DEF ds
    <3>2. PICK v : Adds(v, ds, 1, b) /\ ValueOf(ds, b) = v[1]
      BY <3>1, ValueAdds
    <3>3. v[0] = 0 /\ v[1] = b * v[1 - 1] + ds[1]
      BY <3>1, <3>2 DEF Adds
    <3>4. ValueOf(ds, b) = n
      BY <3>1, <3>2, <3>3 DEF Bases
    <3>5. ds \in Numerals(n, b, 1)
      BY <3>1, <3>4 DEF Numerals
    <3>6. 1 \in 1 .. n + 1
      OBVIOUS
    <3> QED BY <3>5, <3>6
  <2>2. CASE ~(n < b)
    <3> DEFINE m == n \div b
               d == n % b
    <3>1. /\ m \in Nat /\ m < n /\ d \in 0 .. b - 1 /\ n = b * m + d /\ n # 0
      BY <2>2, LastDigit DEF Bases
    <3>2. m # 0
      BY <2>2, <3>1 DEF Bases
    <3> HIDE DEF m, d
    <3>3. PICK l \in 1 .. m + 1 : Numerals(m, b, l) # {}
      BY <1>1, <3>1
    <3>4. PICK es : es \in Numerals(m, b, l)
      BY <3>3
    <3>5. es \in [1 .. l -> 0 .. b - 1] /\ ValueOf(es, b) = m /\ (l > 1 => es[1] # 0) /\ l \in Nat
      BY <3>4 DEF Numerals
    <3> DEFINE k == l + 1
               ds == [i \in 1 .. k |-> IF i = k THEN d ELSE es[i]]
    <3>6. k \in Nat /\ l \in 1 .. k /\ k \in 1 .. n + 1 /\ k - 1 = l /\ k > 1 /\ k \in 1 .. k
      BY <3>1, <3>3
    <3>7. ds \in [1 .. k -> 0 .. b - 1] /\ ds[k] = d /\ \A i \in 1 .. l : i \in 1 .. k /\ ds[i] = es[i]
      BY <3>1, <3>5
    <3> HIDE DEF k, ds
    <3>8. PICK v : Adds(v, ds, k, b) /\ ValueOf(ds, b) = v[k]
      BY <3>6, <3>7, ValueAdds
    <3>9. PICK u : Adds(u, es, l, b) /\ m = u[l]
      BY <3>5, ValueAdds
    <3> DEFINE w == [i \in 0 .. l |-> v[i]]
    <3>10. Adds(w, es, l, b)
      <4>1. \A i \in 0 .. l : i \in 0 .. k /\ v[i] \in Nat
        BY <3>5, <3>6, <3>8 DEF Adds
      <4>2. w \in [0 .. l -> Nat] /\ w[0] = 0
        BY <4>1, <3>5, <3>8 DEF Adds
      <4>3. ASSUME NEW i \in 1 .. l
            PROVE  w[i] = b * w[i - 1] + es[i]
        <5>1. i \in 0 .. l /\ i - 1 \in 0 .. l /\ i \in 1 .. k
          BY <3>6
        <5>2. v[i] = b * v[i - 1] + ds[i]
          BY <3>8, <5>1 DEF Adds
        <5> QED BY <3>7, <5>1, <5>2
      <4> HIDE DEF w
      <4> QED BY <4>2, <4>3, Zenon DEF Adds
    <3>11. v[l] = m
      <4>1. w[l] = u[l]
        BY <3>5, <3>9, <3>10, AddsOnce
      <4> QED BY <3>5, <3>9, <4>1
    <3>12. ValueOf(ds, b) = n
      <4>1. v[k] = b * v[k - 1] + ds[k]
        BY <3>6, <3>8 DEF Adds
      <4> QED BY <3>1, <3>6, <3>7, <3>8, <3>11, <4>1
    <3>13. ds[1] # 0
      <4>1. CASE l > 1
        BY <3>3, <3>5, <3>7, <4>1
      <4>2. CASE l = 1
        <5>1. u[0] = 0 /\ u[1] = b * u[1 - 1] + es[1]
          BY <3>9, <4>2 DEF Adds
        <5>2. es[1] = m
          <6>1. es[1] \in Nat
            BY <3>5, <4>2
          <6> QED BY <3>9, <4>2, <5>1, <6>1 DEF Bases
        <5> QED BY <3>2, <3>7, <4>2, <5>2
      <4> QED BY <3>3, <4>1, <4>2
    <3>14. ds \in Numerals(n, b, k)
      BY <3>7, <3>12, <3>13 DEF Numerals
    <3> QED BY <3>6, <3>14
  <2> QED BY <2>1, <2>2
<1> HIDE DEF T
<1>2. \A n \in Nat : n \in T
  BY <1>1, FromSmaller
<1> QED BY <1>2 DEF T

(* Whatever numeral a number has, print_num puts it out: no digit is lost, *)
(* none is too many, and the first comes first (serial.c:46-59).           *)
Places(ds, k) == [i \in 1 .. k |-> Digits[ds[i] + 1]]
LEMMA NumeralOf ==
  ASSUME NEW b \in Bases, NEW n \in Nat, NEW k \in Nat \ {0}, NEW ds \in Numerals(n, b, k)
  PROVE  Numeral(n, b) = Places(ds, k)
<1>1. ds \in [1 .. k -> 0 .. b - 1] /\ ValueOf(ds, b) = n /\ (k > 1 => ds[1] # 0)
  BY DEF Numerals
<1>2. PICK v : Adds(v, ds, k, b) /\ n = v[k]
  BY <1>1, ValueAdds
<1>3. v \in [0 .. k -> Nat] /\ v[0] = 0 /\ \A i \in 1 .. k : v[i] = b * v[i - 1] + ds[i]
  BY <1>2 DEF Adds
<1>4. PICK buf : Filled(buf, n, b) /\ Numeral(n, b) = IF n = 0 THEN <<"0">> ELSE Reverse(buf[n])
  BY NumeralFills
<1>5. \A i \in 1 .. k : i - 1 \in 0 .. k /\ v[i - 1] \in Nat /\ v[i] \in Nat /\ ds[i] \in 0 .. b - 1 /\ v[i - 1] <= v[i]
  <2> TAKE i \in 1 .. k
  <2>1. i - 1 \in 0 .. k /\ v[i - 1] \in Nat /\ v[i] \in Nat /\ ds[i] \in 0 .. b - 1
    BY <1>1, <1>3
  <2>2. v[i] = b * v[i - 1] + ds[i]
    BY <1>3
  <2>3. v[i - 1] <= v[i]
    BY <2>1, <2>2 DEF Bases
  <2> QED BY <2>1, <2>3
<1>6. CASE n = 0
  <2>1. k = 1
    <3>1. ASSUME k > 1 PROVE FALSE
      <4> DEFINE T == {i \in 0 .. k : i = 0 \/ v[i] > 0}
      <4>1. 0 \in T
        OBVIOUS
      <4>2. ASSUME NEW i \in 1 .. k, i - 1 \in T
            PROVE  i \in T
        <5>1. v[i] = b * v[i - 1] + ds[i] /\ v[i - 1] \in Nat /\ ds[i] \in 0 .. b - 1
          BY <1>3, <1>5
        <5>2. CASE i = 1
          BY <1>1, <3>1, <5>1, <5>2 DEF Bases
        <5>3. CASE i # 1
          <6>1. v[i - 1] > 0
            BY <4>2, <5>3
          <6> QED BY <5>1, <6>1 DEF Bases
        <5> QED BY <5>2, <5>3
      <4> HIDE DEF T
      <4>3. \A i \in 0 .. k : i \in T
        BY <4>1, <4>2, HandedOn
      <4>4. v[k] > 0
        BY <4>3 DEF T
      <4> QED BY <1>2, <1>6, <4>4
    <3> QED BY <3>1
  <2>2. ds[1] = 0
    <3> DEFINE d == ds[1]
    <3>1. d \in 0 .. b - 1 /\ 1 \in 1 .. k /\ 1 - 1 = 0
      BY <1>1, <2>1
    <3>2. v[1] = b * v[0] + d
      BY <1>3, <3>1
    <3>3. v[0] = 0 /\ v[1] = 0
      BY <1>2, <1>3, <1>6, <2>1
    <3> HIDE DEF d
    <3>4. d = 0
      BY <3>1, <3>2, <3>3 DEF Bases
    <3> QED BY <3>4 DEF d
  <2>3. Digits[0 + 1] = "0"
    BY DEF Digits
  <2>4. Places(ds, k) = <<"0">>
    BY <2>1, <2>2, <2>3 DEF Places
  <2> QED BY <1>4, <1>6, <2>4
<1>7. CASE n # 0
  <2>1. \A i \in 0 .. k : v[i] <= n
    <3> DEFINE T == {j \in 0 .. k : v[k - j] <= n}
    <3>1. 0 \in T
      BY <1>2, <1>3
    <3>2. ASSUME NEW j \in 1 .. k, j - 1 \in T
          PROVE  j \in T
      <4>1. k - j + 1 \in 1 .. k /\ (k - j + 1) - 1 = k - j /\ k - (j - 1) = k - j + 1 /\ j \in 0 .. k
        OBVIOUS
      <4>2. v[k - j] <= v[k - j + 1] /\ v[k - j] \in Nat /\ v[k - j + 1] \in Nat
        BY <1>5, <4>1
      <4>3. v[k - j + 1] <= n
        BY <3>2, <4>1
      <4> QED BY <4>1, <4>2, <4>3
    <3> HIDE DEF T
    <3>3. \A j \in 0 .. k : j \in T
      BY <3>1, <3>2, HandedOn
    <3> TAKE i \in 0 .. k
    <3>4. k - i \in 0 .. k /\ k - (k - i) = i
      OBVIOUS
    <3> QED BY <3>3, <3>4 DEF T
  <2>2. \A i \in 1 .. k : v[i] # 0
    <3> DEFINE T == {i \in 0 .. k : i = 0 \/ v[i] > 0}
    <3>1. 0 \in T
      OBVIOUS
    <3>2. ASSUME NEW i \in 1 .. k, i - 1 \in T
          PROVE  i \in T
      <4>1. v[i] = b * v[i - 1] + ds[i] /\ v[i - 1] \in Nat /\ ds[i] \in 0 .. b - 1
        BY <1>3, <1>5
      <4>2. CASE i = 1
        <5>1. CASE k > 1
          BY <1>1, <4>1, <4>2, <5>1 DEF Bases
        <5>2. CASE k = 1
          BY <1>2, <1>7, <1>5, <4>2, <5>2
        <5> QED BY <5>1, <5>2
      <4>3. CASE i # 1
        <5>1. v[i - 1] > 0
          BY <3>2, <4>3
        <5> QED BY <4>1, <5>1 DEF Bases
      <4> QED BY <4>2, <4>3
    <3> HIDE DEF T
    <3>3. \A i \in 0 .. k : i \in T
      BY <3>1, <3>2, HandedOn
    <3> QED BY <3>3 DEF T
  <2> DEFINE Has(s, i) == /\ s \in Seq(Byte) /\ Len(s) = i
                          /\ \A j \in 1 .. i : s[j] = Digits[ds[i - j + 1] + 1]
             T == {i \in 0 .. k : Has(buf[v[i]], i)}
  <2>3. 0 \in T
    <3>1. buf[v[0]] = << >> /\ 0 \in 0 .. k
      BY <1>3, <1>4 DEF Filled
    <3>2. Has(<< >>, 0)
      OBVIOUS
    <3> HIDE DEF Has
    <3> QED BY <3>1, <3>2
  <2>4. ASSUME NEW i \in 1 .. k, i - 1 \in T
        PROVE  i \in T
    <3> DEFINE s == buf[v[i - 1]]
               c == Digits[ds[i] + 1]
               r == buf[v[i]]
    <3>1. Has(s, i - 1) /\ i \in Nat /\ i \in 0 .. k
      <4> HIDE DEF Has
      <4> QED BY <2>4
    <3>2. c \in Byte
      <4>1. ds[i] \in 0 .. 15
        BY <1>5 DEF Bases
      <4> QED BY <4>1, DigitIsByte
    <3>3. r = <<c>> \o s
      <4>1. v[i] \in 1 .. n
        BY <1>5, <2>1, <2>2
      <4>2. v[i] % b = ds[i] /\ v[i] \div b = v[i - 1]
        <5> DEFINE x == v[i - 1]
                   d == ds[i]
        <5>1. v[i] = b * x + d /\ x \in Nat /\ d \in 0 .. b - 1
          BY <1>3, <1>5
        <5> HIDE DEF x, d
        <5>2. (b * x + d) % b = d /\ (b * x + d) \div b = x
          BY <5>1, LastDigit
        <5> QED BY <5>1, <5>2 DEF x, d
      <4>3. buf[v[i]] = <<Digits[(v[i] % b) + 1]>> \o buf[v[i] \div b]
        BY <1>4, <4>1, Zenon DEF Filled
      <4> QED BY <4>2, <4>3
    <3> HIDE DEF s, c
    <3>4. r \in Seq(Byte) /\ Len(r) = i /\ r[1] = c /\ \A j \in 1 .. i - 1 : r[j + 1] = s[j]
      BY <3>1, <3>2, <3>3
    <3> HIDE DEF r
    <3>5. ASSUME NEW j \in 1 .. i
          PROVE  r[j] = Digits[ds[i - j + 1] + 1]
      <4>1. CASE j = 1
        <5>1. i - 1 + 1 = i
          BY <3>1
        <5> QED BY <3>4, <4>1, <5>1 DEF c
      <4>2. CASE j # 1
        <5>1. j - 1 \in 1 .. i - 1 /\ (j - 1) + 1 = j /\ (i - 1) - (j - 1) + 1 = i - j + 1
          BY <4>2
        <5>2. r[j] = s[j - 1]
          BY <3>4, <5>1
        <5>3. s[j - 1] = Digits[ds[(i - 1) - (j - 1) + 1] + 1]
          BY <3>1, <5>1
        <5> QED BY <5>1, <5>2, <5>3
      <4> QED BY <4>1, <4>2
    <3>6. Has(r, i)
      BY <3>4, <3>5
    <3> HIDE DEF Has
    <3> QED BY <3>1, <3>6 DEF r
  <2> HIDE DEF T
  <2>5. \A i \in 0 .. k : i \in T
    BY <2>3, <2>4, HandedOn
  <2> DEFINE s == buf[n]
  <2>6. Has(s, k)
    BY <1>2, <2>5 DEF T
  <2> HIDE DEF s
  <2>7. Reverse(s) = [i \in 1 .. k |-> s[(k - i) + 1]]
    BY <2>6 DEF Reverse
  <2>8. \A i \in 1 .. k : s[(k - i) + 1] = Digits[ds[i] + 1]
    <3> TAKE i \in 1 .. k
    <3>1. (k - i) + 1 \in 1 .. k /\ k - ((k - i) + 1) + 1 = i
      OBVIOUS
    <3>2. s[(k - i) + 1] = Digits[ds[k - ((k - i) + 1) + 1] + 1]
      BY <2>6, <3>1
    <3> QED BY <3>1, <3>2
  <2>9. Reverse(s) = Places(ds, k)
    BY <2>7, <2>8 DEF Places
  <2> QED BY <1>4, <1>7, <2>9 DEF s
<1> QED BY <1>6, <1>7

(* So what is shown of a number is its numeral.                            *)
LEMMA ShownIs ==
  ASSUME NEW b \in Bases, NEW n \in Nat
  PROVE  Shown(n, b) = Numeral(n, b) /\ Numeral(n, b) \in Seq(Byte)
<1> DEFINE k == CHOOSE k \in 1 .. n + 1 : Numerals(n, b, k) # {}
           ds == CHOOSE ds \in Numerals(n, b, k) : TRUE
<1>1. k \in 1 .. n + 1 /\ Numerals(n, b, k) # {}
  BY NumeralExists
<1>2. Shown(n, b) = Places(ds, k)
  BY DEF Shown, Places
<1> HIDE DEF k
<1>3. ds \in Numerals(n, b, k)
  BY <1>1
<1> HIDE DEF ds
<1>4. Numeral(n, b) = Places(ds, k)
  <2>1. k \in Nat \ {0}
    BY <1>1
  <2> QED BY <1>3, <2>1, NumeralOf
<1>5. Places(ds, k) \in Seq(Byte)
  <2>1. \A i \in 1 .. k : ds[i] \in 0 .. 15
    <3>1. ds \in [1 .. k -> 0 .. b - 1]
      BY <1>3, Zenon DEF Numerals
    <3>2. \A d \in 0 .. b - 1 : d \in 0 .. 15
      BY DEF Bases
    <3> QED BY <3>1, <3>2
  <2>2. \A i \in 1 .. k : Digits[ds[i] + 1] \in Byte
    BY <2>1, DigitIsByte
  <2> HIDE DEF Byte
  <2>3. Places(ds, k) \in [1 .. k -> Byte] /\ k \in Nat
    BY <1>1, <2>2 DEF Places
  <2> QED BY <2>3
<1> QED BY <1>2, <1>4, <1>5

-----------------------------------------------------------------------------
(* Bytes in a row.                                                         *)
LEMMA Flattened ==
  ASSUME NEW s \in Seq(Seq(Byte))
  PROVE  /\ FlattenSeq(s) \in Seq(Byte)
         /\ Len(s) = 1 => FlattenSeq(s) = s[1]
<1> DEFINE S == Seq(Byte)
           N == Len(s)
           P == [i \in 0 .. N |-> S]
           Q == [i \in 0 .. N |-> IF i = 0 THEN {<< >>} ELSE {s[1]}]
<1>1. N \in Nat /\ << >> \in S /\ \A i \in 1 .. N : s[i] \in S
  OBVIOUS
<1>2. FlattenSeq(s) \in S
  <2>1. Grows(s, P)
    <3>1. \A x, y \in S : x \o y \in S
      OBVIOUS
    <3> HIDE DEF S
    <3> QED BY <1>1, <3>1 DEF Grows
  <2>2. P \in [0 .. N -> SUBSET S]
    OBVIOUS
  <2>3. FlattenSeq(s) \in P[N]
    <3> HIDE DEF P
    <3> QED BY <2>1, <2>2, FlattenInto
  <2> QED BY <1>1, <2>3
<1>3. ASSUME N = 1
      PROVE  FlattenSeq(s) = s[1]
  <2>1. s[1] \in S
    BY <1>1, <1>3
  <2>2. Grows(s, Q)
    <3>1. << >> \o s[1] = s[1]
      BY <2>1, ConcatEmptySeq
    <3>2. Q[0] = {<< >>} /\ Q[1] = {s[1]}
      BY <1>3
    <3>3. \A i \in 1 .. N : i = 1 /\ i - 1 = 0
      BY <1>3
    <3> HIDE DEF S, Q
    <3> QED BY <3>1, <3>2, <3>3 DEF Grows
  <2>3. Q \in [0 .. N -> SUBSET S]
    <3> HIDE DEF S
    <3> QED BY <1>1, <2>1
  <2>4. FlattenSeq(s) \in Q[N]
    <3> HIDE DEF Q
    <3> QED BY <2>2, <2>3, FlattenInto
  <2> QED BY <1>3, <2>4
<1> QED BY <1>2, <1>3

(* What a conversion puts out is what its item means (serial.c:66-115):    *)
(* bytes,                                                                  *)
LEMMA PutIsByte == \A c \in Byte : Put(c) \in Seq(Byte)
<1> TAKE c \in Byte
<1>1. "\r" \in Byte /\ "\n" \in Byte
  BY DEF Byte
<1> HIDE DEF Byte
<1>2. <<c>> \in Seq(Byte) /\ <<"\r", "\n">> \in Seq(Byte)
  BY <1>1
<1> QED BY <1>2 DEF Put

(* A string (serial_puts),                                                 *)
LEMMA PutsText ==
  ASSUME NEW s \in Seq(Byte)
  PROVE  serial_puts(s) = Text(s) /\ serial_puts(s) \in Seq(Byte)
<1> DEFINE p == [i \in DOMAIN s |-> Put(s[i])]
<1>1. \A i \in DOMAIN s : Put(s[i]) = IF s[i] = "\n" THEN <<"\r", s[i]>> ELSE <<s[i]>>
  BY DEF Put
<1>2. p = [i \in DOMAIN s |-> IF s[i] = "\n" THEN <<"\r", s[i]>> ELSE <<s[i]>>]
  BY <1>1, Zenon
<1>3. p \in Seq(Seq(Byte))
  <2> DEFINE S == Seq(Byte)
  <2>1. DOMAIN s = 1 .. Len(s) /\ Len(s) \in Nat /\ \A i \in DOMAIN s : Put(s[i]) \in S
    <3>1. DOMAIN s = 1 .. Len(s) /\ Len(s) \in Nat /\ \A i \in DOMAIN s : s[i] \in Byte
      OBVIOUS
    <3> QED BY <3>1, PutIsByte
  <2> HIDE DEF S
  <2>2. p \in [1 .. Len(s) -> S]
    BY <2>1
  <2> HIDE DEF p
  <2>3. p \in Seq(S)
    BY <2>1, <2>2
  <2> QED BY <2>3 DEF S
<1>4. FlattenSeq(p) \in Seq(Byte)
  BY <1>3, Flattened
<1> HIDE DEF p
<1> QED BY <1>2, <1>4, Zenon DEF serial_puts, Text, p

(* a letter of the format,                                                 *)
LEMMA LetterText ==
  ASSUME NEW c \in Byte
  PROVE  Put(c) = Text(<<c>>)
<1> DEFINE s == <<c>>
           p == [i \in DOMAIN s |-> Put(s[i])]
<1>1. s \in Seq(Byte) /\ DOMAIN s = 1 .. 1 /\ s[1] = c
  OBVIOUS
<1>2. serial_puts(s) = Text(s)
  BY <1>1, PutsText
<1>3. p \in Seq(Seq(Byte)) /\ Len(p) = 1 /\ p[1] = Put(c)
  <2> DEFINE S == Seq(Byte)
             x == Put(c)
  <2>1. x \in S
    BY PutIsByte
  <2>2. p = [i \in 1 .. 1 |-> x]
    BY <1>1
  <2> HIDE DEF S, x, p
  <2>3. p \in Seq(S) /\ Len(p) = 1 /\ p[1] = x
    BY <2>1, <2>2
  <2> QED BY <2>3 DEF S, x
<1>4. FlattenSeq(p) = Put(c)
  BY <1>3, Flattened
<1> HIDE DEF s
<1> QED BY <1>2, <1>4, Zenon DEF serial_puts, s

(* A remainder by the size of a word of what is at most half a word below  *)
(* or above zero.                                                          *)
LEMMA ArgIs ==
  ASSUME NEW a \in -(LONG \div 2) .. (LONG \div 2) - 1
  PROVE  /\ a \in Int /\ a % LONG \in Nat
         /\ a >= 0 => a % LONG = a /\ ~(a % LONG >= LONG \div 2)
         /\ a < 0 => a % LONG >= LONG \div 2 /\ LONG - (a % LONG) = -a
<1> DEFINE h == LONG \div 2
           q == a \div LONG
           r == a % LONG
<1>1. LONG \in Nat \ {0} /\ h \in Nat \ {0} /\ LONG = 2 * h
  BY SerialAssumption
<1>2. q \in Int /\ r \in 0 .. LONG - 1 /\ a = LONG * q + r /\ a \in Int /\ -h <= a /\ a < h
  BY <1>1
<1> HIDE DEF h, q, r
<1>3. q = IF a >= 0 THEN 0 ELSE -1
  <2>1. CASE q >= 1
    <3>1. LONG * q >= LONG
      BY <1>1, <1>2, <2>1
    <3> QED BY <1>1, <1>2, <3>1
  <2>2. CASE q <= -2
    <3>1. LONG * q <= -2 * LONG
      BY <1>1, <1>2, <2>2
    <3> QED BY <1>1, <1>2, <3>1
  <2>3. CASE q = 0
    BY <1>1, <1>2, <2>3
  <2>4. CASE q = -1
    BY <1>1, <1>2, <2>4
  <2> QED BY <1>2, <2>1, <2>2, <2>3, <2>4
<1>4. a >= 0 => r = a
  BY <1>1, <1>2, <1>3
<1>5. a < 0 => r = a + LONG
  BY <1>1, <1>2, <1>3
<1>6. r \in Nat /\ (a >= 0 => r = a /\ ~(r >= h)) /\ (a < 0 => r >= h /\ LONG - r = -a)
  BY <1>1, <1>2, <1>4, <1>5
<1> QED BY <1>2, <1>6 DEF r, h

(* A number without and with its sign,                                     *)
LEMMA NumberIs ==
  ASSUME NEW b \in Bases, NEW n \in Nat
  PROVE  /\ Number(n, b) = Numeral(n, b) /\ Numeral(n, b) \in Seq(Byte)
         /\ n # 0 => Number(-n, b) = <<"-">> \o Numeral(n, b)
<1>1. Shown(n, b) = Numeral(n, b) /\ Numeral(n, b) \in Seq(Byte)
  BY ShownIs
<1>2. ~(n < 0) /\ (n # 0 => -n < 0) /\ -(-n) = n
  OBVIOUS
<1>3. << >> \o Shown(n, b) = Numeral(n, b)
  BY <1>1, ConcatEmptySeq
<1> QED BY <1>1, <1>2, <1>3, Zenon DEF Number

(* from the word its argument is handed over in,                           *)
LEMMA SignedNumber ==
  ASSUME NEW a \in -(LONG \div 2) .. (LONG \div 2) - 1
  PROVE  print_num(a % LONG, 10, TRUE) = Number(a, 10) /\ Number(a, 10) \in Seq(Byte)
<1>1. a \in Int /\ 10 \in Bases /\ "-" \in Byte
  BY ArgIs DEF Bases, Byte
<1> HIDE DEF Byte
<1>2. CASE a >= 0
  <2>1. a \in Nat /\ a % LONG = a /\ ~(a % LONG >= LONG \div 2)
    BY <1>1, <1>2, ArgIs
  <2>2. print_num(a % LONG, 10, TRUE) = Numeral(a, 10)
    BY <2>1, Zenon DEF print_num
  <2>3. Number(a, 10) = Numeral(a, 10) /\ Numeral(a, 10) \in Seq(Byte)
    BY <1>1, <2>1, NumberIs
  <2> QED BY <2>2, <2>3, Zenon
<1>3. CASE a < 0
  <2> DEFINE n == -a
  <2>1. n \in Nat /\ n # 0 /\ -n = a /\ a % LONG >= LONG \div 2 /\ LONG - (a % LONG) = n
    BY <1>1, <1>3, ArgIs
  <2> HIDE DEF n
  <2>2. print_num(a % LONG, 10, TRUE) = <<"-">> \o Numeral(n, 10)
    BY <2>1, Zenon DEF print_num
  <2>3. Number(-n, 10) = <<"-">> \o Numeral(n, 10) /\ Numeral(n, 10) \in Seq(Byte)
    BY <1>1, <2>1, NumberIs
  <2>4. <<"-">> \o Numeral(n, 10) \in Seq(Byte)
    BY <1>1, <2>3
  <2>5. Number(a, 10) = Number(-n, 10)
    BY <2>1
  <2>6. Number(a, 10) = <<"-">> \o Numeral(n, 10)
    BY <2>3, <2>5
  <2> QED BY <2>2, <2>4, <2>6, Zenon
<1>4. a >= 0 \/ a < 0
  BY <1>1
<1> QED BY <1>2, <1>3, <1>4, Zenon

(* and every conversion.                                                   *)
LEMMA ItemMeans ==
  ASSUME NEW item \in Item
  PROVE  Bytes(item) = Meant(item) /\ Bytes(item) \in Seq(Byte)
<1> DEFINE l == item[1]
           arg == item[2]
           S == Seq(Byte)
<1>1. Letter \subseteq Byte /\ {"\r", "\n", "-", "0", "x", "%", "(", "n", "u", "l", ")"} \subseteq Byte
  BY DEF Byte
<1>2. << >> \in S /\ (\A c \in Byte : <<c>> \in S) /\ (\A c, d \in Byte : <<c, d>> \in S)
      /\ (\A s, t \in S : s \o t \in S) /\ Seq(Letter) \subseteq S
  <2> HIDE DEF Byte
  <2> QED BY <1>1
<1>3. 10 \in Bases /\ 16 \in Bases
  BY DEF Bases
<1>4. CASE item \in {"text", "c"} \X Letter
  <2>1. l \in {"text", "c"} /\ arg \in Byte
    BY <1>1, <1>4
  <2>2. CASE l = "text"
    <3>1. Bytes(item) = Put(arg) /\ Meant(item) = Text(<<arg>>)
      BY <2>2 DEF Bytes, Meant
    <3> QED BY <2>1, <3>1, LetterText, PutIsByte
  <2>3. CASE l = "c"
    <3>1. Bytes(item) = <<arg>> /\ Meant(item) = Bytes(item)
      BY <2>3 DEF Bytes, Meant
    <3> QED BY <1>2, <2>1, <3>1
  <2> QED BY <2>1, <2>2, <2>3
<1>5. CASE item \in {"s"} \X ({NULL} \cup Seq(Letter))
  <2>1. l = "s" /\ (arg = NULL \/ arg \in Seq(Letter))
    BY <1>5
  <2> DEFINE s == IF arg = NULL THEN <<"(", "n", "u", "l", "l", ")">> ELSE arg
  <2>2. s \in S
    <3>1. <<"(", "n", "u", "l", "l", ")">> \in S
      <4>1. "(" \in Byte /\ "n" \in Byte /\ "u" \in Byte /\ "l" \in Byte /\ ")" \in Byte
        BY <1>1
      <4> HIDE DEF Byte
      <4> QED BY <4>1
    <3> QED BY <1>2, <2>1, <3>1
  <2>3. Bytes(item) = serial_puts(s)
    BY <2>1 DEF Bytes
  <2>4. Meant(item) = IF arg # NULL THEN Text(arg) ELSE Bytes(item)
    BY <2>1 DEF Meant
  <2> HIDE DEF S
  <2>5. serial_puts(s) = Text(s) /\ serial_puts(s) \in S
    BY <2>2, PutsText DEF S
  <2> QED BY <2>3, <2>4, <2>5 DEF S
<1>6. CASE item \in {"d", "i"} \X (-(LONG \div 2) .. (LONG \div 2) - 1)
  <2>1. l \in {"d", "i"} /\ arg \in -(LONG \div 2) .. (LONG \div 2) - 1
    BY <1>6
  <2>2. Bytes(item) = print_num(arg % LONG, 10, TRUE) /\ Meant(item) = Number(arg, 10)
    BY <2>1 DEF Bytes, Meant
  <2> QED BY <2>1, <2>2, SignedNumber
<1>7. CASE item \in {"u", "x", "p"} \X (0 .. LONG - 1)
  <2>1. l \in {"u", "x", "p"} /\ arg \in Nat
    BY <1>7, SerialAssumption
  <2>2. \A b \in Bases : print_num(arg, b, FALSE) = Number(arg, b) /\ Number(arg, b) \in S
    <3> TAKE b \in Bases
    <3>1. print_num(arg, b, FALSE) = Numeral(arg, b)
      BY Zenon DEF print_num
    <3> QED BY <2>1, <3>1, NumberIs
  <2>3. CASE l = "u"
    <3>1. Bytes(item) = print_num(arg, 10, FALSE) /\ Meant(item) = Number(arg, 10)
      BY <2>3 DEF Bytes, Meant
    <3> QED BY <1>3, <2>2, <3>1
  <2>4. CASE l = "x"
    <3>1. Bytes(item) = print_num(arg, 16, FALSE) /\ Meant(item) = Number(arg, 16)
      BY <2>4 DEF Bytes, Meant
    <3> QED BY <1>3, <2>2, <3>1
  <2>5. CASE l = "p"
    <3>1. Bytes(item) = <<"0", "x">> \o print_num(arg, 16, FALSE) /\ Meant(item) = <<"0", "x">> \o Number(arg, 16)
      BY <2>5 DEF Bytes, Meant
    <3>2. <<"0", "x">> \in S
      BY <1>1, <1>2
    <3> HIDE DEF S
    <3>3. <<"0", "x">> \o Number(arg, 16) \in S
      BY <1>2, <1>3, <2>2, <3>2, Zenon
    <3> QED BY <1>3, <2>2, <3>1, <3>3 DEF S
  <2> QED BY <2>1, <2>3, <2>4, <2>5
<1>8. CASE item \in ({"end", "%"} \cup (Letter \ {"text", "c", "s"})) \X {0}
  <2>1. l \in {"end", "%"} \cup (Letter \ {"text", "c", "s"}) /\ arg = 0
    BY <1>8
  <2>2. CASE l \in {"d", "i", "u", "x", "p"}
    <3>1. item = <<l, 0>>
      BY <1>8
    <3>2. 0 \in -(LONG \div 2) .. (LONG \div 2) - 1 /\ 0 \in 0 .. LONG - 1
      BY SerialAssumption
    <3>3. item \in {"d", "i"} \X (-(LONG \div 2) .. (LONG \div 2) - 1) \/ item \in {"u", "x", "p"} \X (0 .. LONG - 1)
      BY <2>2, <3>1, <3>2
    <3> QED BY <1>6, <1>7, <3>3
  <2>3. CASE l \notin {"d", "i", "u", "x", "p"}
    <3>1. l \notin {"text", "s", "d", "i", "u", "x", "p"}
      BY <2>1, <2>3
    <3>2. Meant(item) = Bytes(item)
      BY <3>1 DEF Meant
    <3>3. CASE l = "end"
      <4>1. Bytes(item) = << >>
        BY <3>3 DEF Bytes
      <4> QED BY <1>2, <3>2, <4>1
    <3>4. CASE l = "%"
      <4>1. Bytes(item) = <<"%">>
        BY <3>4 DEF Bytes
      <4> QED BY <1>1, <1>2, <3>2, <4>1
    <3>5. CASE l \in Letter \ {"text", "c", "s", "end", "%"}
      <4>1. Bytes(item) = <<"%", l>>
        BY <3>1, <3>5 DEF Bytes
      <4> QED BY <1>1, <1>2, <3>2, <3>5, <4>1
    <3> QED BY <2>1, <3>3, <3>4, <3>5
  <2> QED BY <2>2, <2>3
<1> QED BY <1>4, <1>5, <1>6, <1>7, <1>8 DEF Item

(* So kprintf puts out what its format means.                              *)
LEMMA FormatMeans ==
  ASSUME NEW fmt \in Formats
  PROVE  /\ FlattenSeq([i \in DOMAIN fmt |-> Bytes(fmt[i])]) = FlattenSeq([i \in DOMAIN fmt |-> Meant(fmt[i])])
         /\ FlattenSeq([i \in DOMAIN fmt |-> Bytes(fmt[i])]) \in Seq(Byte)
<1> DEFINE S == Seq(Byte)
           b == [i \in DOMAIN fmt |-> Bytes(fmt[i])]
<1>1. DOMAIN fmt = 1 .. Len(fmt) /\ Len(fmt) \in Nat /\ \A i \in DOMAIN fmt : fmt[i] \in Item
  <2> HIDE DEF Item
  <2> QED BY FormatsAssumption
<1>2. \A i \in DOMAIN fmt : Bytes(fmt[i]) = Meant(fmt[i]) /\ Bytes(fmt[i]) \in S
  BY <1>1, ItemMeans
<1>3. b = [i \in DOMAIN fmt |-> Meant(fmt[i])]
  BY <1>2, Zenon
<1>4. b \in Seq(S)
  <2> HIDE DEF S
  <2>1. b \in [1 .. Len(fmt) -> S]
    BY <1>1, <1>2
  <2> HIDE DEF b
  <2> QED BY <1>1, <2>1
<1>5. FlattenSeq(b) \in S
  BY <1>4, Flattened
<1> QED BY <1>3, <1>5, Zenon

-----------------------------------------------------------------------------
(* The UART.                                                               *)
Uart == [dlab : BOOLEAN, format : Nat, divisor : Nat \X Nat, ier : Nat, fifo : Seq(Byte)]
Held(u, f) == [u EXCEPT !.fifo = f]

(* The bytes that are printed are data only while DLAB is clear.           *)
LEMMA Sent ==
  ASSUME NEW u \in Uart, ~u.dlab, u.fifo = << >>, NEW c
  PROVE  Written(u, 0, c) = Held(u, <<c>>)
<1>1. Len(u.fifo) < FIFO /\ Append(u.fifo, c) = <<c>>
  BY SerialAssumption
<1>2. Written(u, 0, c) = [u EXCEPT !.fifo = IF Len(@) < FIFO THEN Append(@, c) ELSE @]
  BY DEF Written
<1> QED BY <1>1, <1>2 DEF Held

(* How far the set-up is, and what it has set by then.                     *)
Left(n) == [i \in 1 .. 7 - n |-> Setup[n + i]]
Set(u, n) ==
  /\ u.dlab <=> n \in 2 .. 4
  /\ n >= 1 => u.ier = 0
  /\ n >= 3 => u.divisor[1] = 3
  /\ n >= 4 => u.divisor[2] = 0
  /\ n >= 5 => u.format = 3
Upto(n) ==
  /\ setup = Left(n)
  /\ Set(uart, n)
  /\ n < 7 => uart.fifo = << >> /\ out = << >> /\ ~ready
SerialInv ==
  /\ uart \in Uart
  /\ out \in Seq(Byte)
  /\ ready \in BOOLEAN
  /\ owed = uart.fifo \o out
  /\ ready => out # << >> /\ uart.fifo = << >> /\ setup = << >>
  /\ \E n \in 0 .. 7 : Upto(n)

(* A write of serial_init sets what is counted as set after it.            *)
LEMMA RegistersSet ==
  ASSUME NEW u \in Uart, u.fifo = << >>, NEW n \in 0 .. 6, Set(u, n)
  PROVE  LET w == Written(u, Setup[n + 1][1], Setup[n + 1][2])
         IN w \in Uart /\ w.fifo = << >> /\ Set(w, n + 1)
<1> HIDE DEF Byte
<1> DEFINE S == Seq(Byte)
           w == Written(u, Setup[n + 1][1], Setup[n + 1][2])
<1>1. u \in [dlab : BOOLEAN, format : Nat, divisor : Nat \X Nat, ier : Nat, fifo : S] /\ << >> \in S
  BY DEF Uart
<1> HIDE DEF S
<1>2. ASSUME NEW x \in BOOLEAN, NEW y \in Nat
      PROVE  LET z == [u EXCEPT !.dlab = x, !.format = y]
             IN z \in [dlab : BOOLEAN, format : Nat, divisor : Nat \X Nat, ier : Nat, fifo : S]
                /\ z.dlab = x /\ z.format = y /\ z.divisor = u.divisor /\ z.ier = u.ier /\ z.fifo = u.fifo
  BY <1>1
<1>3. ASSUME NEW x \in Nat
      PROVE  LET z == [u EXCEPT !.divisor[1] = x]
             IN z \in [dlab : BOOLEAN, format : Nat, divisor : Nat \X Nat, ier : Nat, fifo : S]
                /\ z.dlab = u.dlab /\ z.format = u.format /\ z.divisor[1] = x /\ z.divisor[2] = u.divisor[2]
                /\ z.ier = u.ier /\ z.fifo = u.fifo
  BY <1>1
<1>4. ASSUME NEW x \in Nat
      PROVE  LET z == [u EXCEPT !.divisor[2] = x]
             IN z \in [dlab : BOOLEAN, format : Nat, divisor : Nat \X Nat, ier : Nat, fifo : S]
                /\ z.dlab = u.dlab /\ z.format = u.format /\ z.divisor[2] = x /\ z.divisor[1] = u.divisor[1]
                /\ z.ier = u.ier /\ z.fifo = u.fifo
  BY <1>1
<1> USE DEF Setup
<1>5. CASE n = 0
  <2>1. w = Written(u, 1, 0) /\ ~u.dlab
    BY <1>5 DEF Set
  <2>2. w = [u EXCEPT !.ier = 0]
    BY <2>1 DEF Written
  <2> QED BY <1>1, <1>5, <2>1, <2>2 DEF Set, Uart, S
<1>6. CASE n = 1
  <2>1. w = Written(u, 3, 128)
    BY <1>6
  <2>2. w = [u EXCEPT !.dlab = TRUE, !.format = 0]
    <3>1. (128 >= 128) = TRUE /\ 128 % 128 = 0
      OBVIOUS
    <3>2. w = [u EXCEPT !.dlab = 128 >= 128, !.format = 128 % 128]
      BY <2>1 DEF Written
    <3> QED BY <3>1, <3>2
  <2> HIDE DEF w
  <2>3. w \in [dlab : BOOLEAN, format : Nat, divisor : Nat \X Nat, ier : Nat, fifo : S]
        /\ w.dlab = TRUE /\ w.format = 0 /\ w.divisor = u.divisor /\ w.ier = u.ier /\ w.fifo = u.fifo
    BY <1>2, <2>2
  <2>4. Set(w, n + 1)
    BY <1>6, <2>3 DEF Set
  <2> QED BY <2>3, <2>4 DEF Uart, S, w
<1>7. CASE n = 2
  <2>1. w = Written(u, 0, 3) /\ u.dlab
    BY <1>7 DEF Set
  <2>2. w = [u EXCEPT !.divisor[1] = 3]
    BY <2>1 DEF Written
  <2> QED BY <1>3, <1>7, <2>1, <2>2 DEF Set, Uart, S
<1>8. CASE n = 3
  <2>1. w = Written(u, 1, 0) /\ u.dlab
    BY <1>8 DEF Set
  <2>2. w = [u EXCEPT !.divisor[2] = 0]
    BY <2>1 DEF Written
  <2> QED BY <1>4, <1>8, <2>1, <2>2 DEF Set, Uart, S
<1>9. CASE n = 4
  <2>1. w = Written(u, 3, 3)
    BY <1>9
  <2>2. w = [u EXCEPT !.dlab = FALSE, !.format = 3]
    <3>1. (3 >= 128) = FALSE /\ 3 % 128 = 3
      OBVIOUS
    <3>2. w = [u EXCEPT !.dlab = 3 >= 128, !.format = 3 % 128]
      BY <2>1 DEF Written
    <3> QED BY <3>1, <3>2
  <2> HIDE DEF w
  <2>3. w \in [dlab : BOOLEAN, format : Nat, divisor : Nat \X Nat, ier : Nat, fifo : S]
        /\ w.dlab = FALSE /\ w.format = 3 /\ w.divisor = u.divisor /\ w.ier = u.ier /\ w.fifo = u.fifo
    BY <1>2, <2>2
  <2>4. Set(w, n + 1)
    BY <1>9, <2>3 DEF Set
  <2> QED BY <2>3, <2>4 DEF Uart, S, w
<1>10. CASE n = 5
  <2>1. w = Written(u, 2, 199) /\ (199 \div 4) % 2 = 1
    BY <1>10
  <2>2. w = [u EXCEPT !.fifo = << >>]
    BY <2>1 DEF Written
  <2> QED BY <1>1, <1>10, <2>2 DEF Set, Uart, S
<1>11. CASE n = 6
  <2>1. w = Written(u, 4, 11)
    BY <1>11
  <2>2. w = u
    BY <2>1 DEF Written
  <2> QED BY <1>11, <2>2 DEF Set
<1> QED BY <1>5, <1>6, <1>7, <1>8, <1>9, <1>10, <1>11

(* The writes that are left after each.                                    *)
LEMMA SetupLeft ==
  /\ Left(0) = Setup
  /\ \A n \in 0 .. 6 : Left(n) # << >> /\ Head(Left(n)) = Setup[n + 1] /\ Tail(Left(n)) = Left(n + 1)
  /\ \A n \in 0 .. 7 : Left(n) = << >> <=> n = 7
<1> DEFINE P == Nat \X Nat
<1>1. Setup \in Seq(P) /\ Len(Setup) = 7 /\ \A j \in 1 .. 7 : Setup[j] \in P
  BY DEF Setup
<1> HIDE DEF Setup, P
<1>2. ASSUME NEW n \in 0 .. 7
      PROVE  Left(n) \in Seq(P) /\ Len(Left(n)) = 7 - n /\ \A i \in 1 .. 7 - n : Left(n)[i] = Setup[n + i]
  <2>1. 7 - n \in Nat /\ \A i \in 1 .. 7 - n : n + i \in 1 .. 7
    OBVIOUS
  <2>2. Left(n) \in [1 .. 7 - n -> P]
    <3>1. \A j \in 1 .. 7 : Setup[j] \in P
      BY <1>1
    <3>2. \A i \in 1 .. 7 - n : Setup[n + i] \in P
      BY <2>1, <3>1
    <3> QED BY <3>2, Zenon DEF Left
  <2>3. \A i \in 1 .. 7 - n : Left(n)[i] = Setup[n + i]
    BY DEF Left
  <2> HIDE DEF Left
  <2>4. Left(n) \in Seq(P) /\ Len(Left(n)) = 7 - n
    BY <2>1, <2>2
  <2> QED BY <2>3, <2>4
<1>3. Left(0) = Setup
  <2>1. 0 \in 0 .. 7 /\ 7 - 0 = 7 /\ \A i \in 1 .. 7 : 0 + i = i
    OBVIOUS
  <2>2. Left(0) \in Seq(P) /\ Len(Left(0)) = 7 /\ \A i \in 1 .. 7 : Left(0)[i] = Setup[i]
    BY <1>2, <2>1
  <2> QED BY <1>1, <2>2, SeqEqual
<1>4. ASSUME NEW n \in 0 .. 7
      PROVE  Left(n) = << >> <=> n = 7
  <2> DEFINE s == Left(n)
  <2>1. s \in Seq(P) /\ Len(s) = 7 - n
    BY <1>2
  <2> HIDE DEF s
  <2>2. s = << >> <=> n = 7
    BY <2>1
  <2> QED BY <2>2 DEF s
<1>5. ASSUME NEW n \in 0 .. 6
      PROVE  Left(n) # << >> /\ Head(Left(n)) = Setup[n + 1] /\ Tail(Left(n)) = Left(n + 1)
  <2> DEFINE s == Left(n)
             t == Left(n + 1)
  <2>1. s \in Seq(P) /\ Len(s) = 7 - n /\ \A i \in 1 .. 7 - n : s[i] = Setup[n + i]
    <3>1. n \in 0 .. 7
      OBVIOUS
    <3> QED BY <1>2, <3>1
  <2>2. t \in Seq(P) /\ Len(t) = 6 - n /\ \A i \in 1 .. 6 - n : t[i] = Setup[n + 1 + i]
    <3>1. n + 1 \in 0 .. 7 /\ 7 - (n + 1) = 6 - n
      OBVIOUS
    <3> QED BY <1>2, <3>1
  <2> HIDE DEF s, t
  <2>3. s # << >> /\ Head(s) = Setup[n + 1]
    BY <2>1
  <2>4. Tail(s) \in Seq(P) /\ Len(Tail(s)) = 6 - n /\ \A i \in 1 .. 6 - n : Tail(s)[i] = Setup[n + 1 + i]
    BY <2>1
  <2>5. Tail(s) = t
    BY <2>2, <2>4, SeqEqual
  <2> QED BY <2>3, <2>5 DEF s, t
<1> QED BY <1>3, <1>4, <1>5

(* The first write after the firmware, and the last before the log.        *)
LEMMA SetupStarts == SerialInit => SerialInv
<1> SUFFICES ASSUME SerialInit
             PROVE  SerialInv
  OBVIOUS
<1> HIDE DEF Byte
<1>1. uart \in Uart /\ uart.fifo = << >> /\ ~uart.dlab
  BY DEF SerialInit, Uart
<1>2. out = << >> /\ out \in Seq(Byte) /\ ready = FALSE /\ owed = << >> /\ << >> \o << >> = << >>
  BY DEF SerialInit
<1>3. setup = Left(0)
  BY SetupLeft DEF SerialInit
<1>4. Upto(0)
  BY <1>1, <1>2, <1>3 DEF Upto, Set
<1>5. 0 \in 0 .. 7
  OBVIOUS
<1> HIDE DEF Upto
<1> QED BY <1>1, <1>2, <1>4, <1>5 DEF SerialInv

(* Each write of the set-up sets what the invariant counts as set by it    *)
(* (serial.c:5-13).                                                        *)
LEMMA SetupGoesOn ==
  ASSUME SerialInv, serial_init
  PROVE  SerialInv'
<1> HIDE DEF Byte
<1>1. PICK n \in 0 .. 7 : Upto(n)
  BY Zenon DEF SerialInv
<1>2. n \in 0 .. 6 /\ setup = Left(n)
  <2>1. setup = Left(n) /\ setup # << >>
    BY <1>1 DEF Upto, serial_init
  <2>2. n # 7
    BY <2>1, SetupLeft
  <2> QED BY <2>1, <2>2
<1>3. uart' = Written(uart, Setup[n + 1][1], Setup[n + 1][2]) /\ setup' = Left(n + 1)
  BY <1>2, SetupLeft DEF serial_init
<1>4. out' = out /\ ready' = ready /\ owed' = owed /\ out = << >> /\ ~ready /\ uart.fifo = << >> /\ owed = << >>
  BY <1>1, <1>2 DEF serial_init, Upto, SerialInv
<1>5. uart \in Uart
  BY DEF SerialInv
<1>6. uart' \in Uart /\ uart'.fifo = << >> /\ Set(uart', n + 1)
  <2>1. Set(uart, n)
    BY <1>1 DEF Upto
  <2> QED BY <1>2, <1>3, <1>4, <1>5, <2>1, RegistersSet, Zenon
<1>7. Upto(n + 1)'
  BY <1>3, <1>4, <1>6 DEF Upto
<1>8. n + 1 \in 0 .. 7
  BY <1>2
<1>9. out' \in Seq(Byte) /\ owed' = uart'.fifo \o out' /\ ready' \in BOOLEAN
  BY <1>4, <1>6 DEF SerialInv
<1> HIDE DEF Upto
<1> QED BY <1>4, <1>6, <1>7, <1>8, <1>9 DEF SerialInv

(* After the set-up the registers stay as they are.                        *)
SetUp(u, s) == s = << >> /\ ~u.dlab /\ u.divisor = <<3, 0>> /\ u.format = 3 /\ u.ier = 0
(* What the transmitter holds is none of them.                             *)
LEMMA HeldIs ==
  ASSUME NEW u \in Uart, NEW f \in Seq(Byte)
  PROVE  Held(u, f) \in Uart /\ Held(u, f).fifo = f /\ \A s : SetUp(u, s) => SetUp(Held(u, f), s)
<1> HIDE DEF Byte
<1> QED BY DEF Held, Uart, SetUp

(* The log begins when they are set.                                       *)
LEMMA WhenSetUp ==
  ASSUME SerialInv
  PROVE  /\ setup = << >> \/ uart.fifo # << >> \/ out # << >> => SetUp(uart, setup)
         /\ SetUp(uart, setup) <=> Upto(7)
<1> HIDE DEF Byte
<1>1. PICK n \in 0 .. 7 : Upto(n)
  BY Zenon DEF SerialInv
<1>2. uart.divisor \in Nat \X Nat
  BY DEF SerialInv, Uart
<1>3. Left(7) = << >>
  BY SetupLeft
<1>4. SetUp(uart, setup) <=> Upto(7)
  BY <1>2, <1>3 DEF SetUp, Upto, Set
<1> HIDE DEF SetUp
<1>5. setup = << >> \/ uart.fifo # << >> \/ out # << >> => n = 7
  <2>1. n # 7 => n < 7 /\ setup # << >>
    <3>1. n # 7 => n < 7
      OBVIOUS
    <3>2. setup = Left(n)
      BY <1>1 DEF Upto
    <3>3. Left(n) = << >> <=> n = 7
      BY SetupLeft
    <3> QED BY <3>1, <3>2, <3>3
  <2>2. n < 7 => uart.fifo = << >> /\ out = << >>
    BY <1>1 DEF Upto
  <2> QED BY <2>1, <2>2
<1> QED BY <1>1, <1>4, <1>5

(* The log stays what its formats mean with every byte that is put out,    *)
(* handed to the UART and sent.                                            *)
LEMMA LogStep ==
  ASSUME SerialInv, [SerialNext]_serialVars
  PROVE  SerialInv'
<1> HIDE DEF Byte
<1>1. CASE serial_init
  BY <1>1, SetupGoesOn
<1>2. ASSUME SetUp(uart, setup), SetUp(uart', setup'), uart' \in Uart, out' \in Seq(Byte), ready' \in BOOLEAN,
             owed' = uart'.fifo \o out', ready' => out' # << >> /\ uart'.fifo = << >>
      PROVE  SerialInv'
  <2>1. Upto(7)'
    <3>1. Left(7) = << >> /\ uart'.divisor \in Nat \X Nat
      BY <1>2, SetupLeft DEF Uart
    <3> QED BY <1>2, <3>1 DEF SetUp, Upto, Set
  <2>2. setup' = << >> /\ 7 \in 0 .. 7
    BY <1>2 DEF SetUp
  <2> HIDE DEF Upto
  <2> QED BY <1>2, <2>1, <2>2 DEF SerialInv
<1>3. ASSUME NEW fmt \in Formats, kprintf(fmt)
      PROVE  SerialInv'
  <2> DEFINE b == FlattenSeq([i \in DOMAIN fmt |-> Bytes(fmt[i])])
  <2>1. b \in Seq(Byte) /\ b = FlattenSeq([i \in DOMAIN fmt |-> Meant(fmt[i])])
    BY FormatMeans
  <2>2. out' = b /\ owed' = owed \o b
    BY <1>3, <2>1 DEF kprintf
  <2> HIDE DEF b
  <2>3. setup = << >> /\ out = << >> /\ setup' = setup /\ uart' = uart /\ ready' = ready
    BY <1>3 DEF kprintf
  <2>4. SetUp(uart, setup)
    BY <2>3, WhenSetUp
  <2>5. uart \in Uart /\ uart.fifo \in Seq(Byte) /\ ~ready /\ ready \in BOOLEAN
    BY <2>3 DEF SerialInv, Uart
  <2>6. owed = uart.fifo
    <3>1. owed = uart.fifo \o << >>
      BY <2>3 DEF SerialInv
    <3> QED BY <2>5, <3>1, ConcatEmptySeq
  <2> QED BY <1>2, <2>1, <2>2, <2>3, <2>4, <2>5, <2>6
<1>4. CASE Poll
  <2>1. out # << >> /\ ready' = (uart.fifo = << >>) /\ setup' = setup /\ uart' = uart /\ out' = out /\ owed' = owed
    BY <1>4 DEF Poll
  <2>2. SetUp(uart, setup)
    BY <2>1, WhenSetUp
  <2> QED BY <1>2, <2>1, <2>2 DEF SerialInv
<1>5. CASE Send
  <2>1. ready /\ out' = Tail(out) /\ ready' = FALSE /\ setup' = setup /\ owed' = owed
    BY <1>5 DEF Send
  <2>2. out # << >> /\ out \in Seq(Byte) /\ uart.fifo = << >> /\ uart \in Uart /\ owed = << >> \o out
    BY <2>1 DEF SerialInv
  <2>3. SetUp(uart, setup)
    BY <2>2, WhenSetUp
  <2>4. uart' = Held(uart, <<Head(out)>>)
    BY <1>5, <2>2, <2>3, Sent DEF Send, SetUp
  <2>5. Head(out) \in Byte /\ Tail(out) \in Seq(Byte) /\ << >> \o out = <<Head(out)>> \o Tail(out)
    BY <2>2
  <2>6. <<Head(out)>> \in Seq(Byte)
    BY <2>5
  <2>7. uart' \in Uart /\ uart'.fifo = <<Head(out)>> /\ SetUp(uart', setup')
    BY <2>1, <2>2, <2>3, <2>4, <2>6, HeldIs
  <2> QED BY <1>2, <2>1, <2>2, <2>3, <2>5, <2>7
<1>6. CASE Transmit
  <2>1. uart.fifo # << >> /\ uart' = Held(uart, Tail(uart.fifo)) /\ owed' = Tail(owed)
        /\ setup' = setup /\ out' = out /\ ready' = ready
    BY <1>6 DEF Transmit, Held
  <2>2. uart \in Uart /\ uart.fifo \in Seq(Byte) /\ out \in Seq(Byte) /\ owed = uart.fifo \o out /\ ~ready /\ ready \in BOOLEAN
    BY <2>1 DEF SerialInv, Uart
  <2>3. SetUp(uart, setup)
    BY <2>1, WhenSetUp
  <2>4. Tail(uart.fifo) \in Seq(Byte) /\ Tail(uart.fifo \o out) = Tail(uart.fifo) \o out
    <3> DEFINE f == uart.fifo
               t == Tail(f)
               g == f \o out
    <3>1. f \in Seq(Byte) /\ f # << >> /\ out \in Seq(Byte)
      BY <2>1, <2>2
    <3> HIDE DEF f
    <3>2. /\ t \in Seq(Byte) /\ Len(t) = Len(f) - 1 /\ \A i \in 1 .. Len(f) - 1 : t[i] = f[i + 1]
      BY <3>1
    <3>3. /\ g \in Seq(Byte) /\ Len(g) = Len(f) + Len(out) /\ Len(f) \in Nat \ {0} /\ Len(out) \in Nat
          /\ \A i \in 1 .. Len(f) + Len(out) : g[i] = IF i <= Len(f) THEN f[i] ELSE out[i - Len(f)]
      BY <3>1
    <3> HIDE DEF t, g
    <3>4. /\ Tail(g) \in Seq(Byte) /\ Len(Tail(g)) = (Len(f) + Len(out)) - 1
          /\ \A i \in 1 .. (Len(f) + Len(out)) - 1 : Tail(g)[i] = g[i + 1]
      BY <3>3
    <3> DEFINE m == Len(f) - 1
    <3>8. m \in Nat /\ Len(t) = m
      BY <3>2, <3>3
    <3> HIDE DEF m
    <3>9. /\ t \o out \in Seq(Byte) /\ Len(t \o out) = m + Len(out)
          /\ \A i \in 1 .. m + Len(out) : (t \o out)[i] = IF i <= m THEN t[i] ELSE out[i - m]
      BY <3>1, <3>2, <3>8, ConcatProperties
    <3>5. /\ t \o out \in Seq(Byte) /\ Len(t \o out) = (Len(f) - 1) + Len(out)
          /\ \A i \in 1 .. (Len(f) - 1) + Len(out) : (t \o out)[i] = IF i <= Len(f) - 1 THEN t[i] ELSE out[i - (Len(f) - 1)]
      BY <3>9 DEF m
    <3>6. \A i \in 1 .. (Len(f) + Len(out)) - 1 : Tail(g)[i] = (t \o out)[i]
      <4> TAKE i \in 1 .. (Len(f) + Len(out)) - 1
      <4>1. i \in 1 .. (Len(f) - 1) + Len(out) /\ i + 1 \in 1 .. Len(f) + Len(out)
            /\ (i + 1 <= Len(f) <=> i <= Len(f) - 1) /\ (i + 1) - Len(f) = i - (Len(f) - 1)
        BY <3>3
      <4>2. Tail(g)[i] = IF i + 1 <= Len(f) THEN f[i + 1] ELSE out[(i + 1) - Len(f)]
        BY <3>3, <3>4, <4>1
      <4>3. (t \o out)[i] = IF i <= Len(f) - 1 THEN t[i] ELSE out[i - (Len(f) - 1)]
        BY <3>5, <4>1
      <4>4. i <= Len(f) - 1 => t[i] = f[i + 1]
        BY <3>2, <3>3
      <4> QED BY <4>1, <4>2, <4>3, <4>4
    <3>7. Tail(g) = t \o out
      <4>1. Len(Tail(g)) = Len(t \o out)
        BY <3>3, <3>4, <3>5
      <4> QED BY <3>4, <3>5, <3>6, <4>1, SeqEqual
    <3> QED BY <3>2, <3>7 DEF f, t, g
  <2>5. uart' \in Uart /\ uart'.fifo = Tail(uart.fifo) /\ SetUp(uart', setup')
    BY <2>1, <2>2, <2>3, <2>4, HeldIs
  <2> QED BY <1>2, <2>1, <2>2, <2>3, <2>4, <2>5
<1>7. CASE UNCHANGED serialVars
  BY <1>7 DEF serialVars, SerialInv, Upto
<1> QED BY <1>1, <1>3, <1>4, <1>5, <1>6, <1>7 DEF SerialNext

(* Everything that is printed leaves the UART, in order, at the rate and   *)
(* in the format that were set: for every size of the transmitter, every   *)
(* word length and every format with arguments (serial.c:5-120).           *)
THEOREM LogAsPrintedAlways == SerialSpec => []LogAsPrinted
<1>1. SerialInit => SerialInv
  BY SetupStarts
<1>2. SerialInv /\ [SerialNext]_serialVars => SerialInv'
  BY LogStep
<1>3. SerialInv => LogAsPrinted
  <2> SUFFICES ASSUME SerialInv
               PROVE  LogAsPrinted
    OBVIOUS
  <2>1. uart.fifo # << >> => SetUp(uart, setup)
    BY WhenSetUp
  <2> QED BY <2>1 DEF SerialInv, LogAsPrinted, SetUp
<1> QED BY <1>1, <1>2, <1>3, PTL DEF SerialSpec

-----------------------------------------------------------------------------
(* The text screen.                                                        *)

AnyCell == [ch : 0 .. 255, color : 0 .. 255]
AnyRow  == [Column -> AnyCell]

(* The inductive invariant: the head is on the screen and nothing is       *)
(* visible below its row.                                                  *)
TInv ==
  /\ vga_row \in Row /\ vga_col \in Column
  /\ vga_buffer \in [Row -> AnyRow]
  /\ top \in Nat /\ gone \in [0 .. top - 1 -> AnyRow]
  /\ \A y \in Row : y > vga_row => Marks(vga_buffer[y]) = Sheet!BlankLine

USE TerminalAssumption

(* What is put into the buffer is a cell.                                  *)
LEMMA EntryIsCell == \A c \in Char, color \in Color : vga_entry(c, color) \in AnyCell
  BY DEF vga_entry, AnyCell

(* A blank row is a row, and shows nothing.                                *)
LEMMA BlankRows ==
  \A color \in 0 .. 255 : BlankRow(color) \in AnyRow /\ Marks(BlankRow(color)) = Sheet!BlankLine
<1> TAKE color \in 0 .. 255
<1>1. vga_entry(32, color) = [ch |-> 32, color |-> color]
  BY DEF vga_entry
<1>2. [ch |-> 32, color |-> color] \in AnyCell /\ [ch |-> 32, color |-> color].ch = 32
  BY DEF AnyCell
<1> QED BY <1>1, <1>2 DEF BlankRow, AnyRow, Marks, Sheet!BlankLine, Column

(* Scrolling moves every row up by one and leaves a blank one.             *)
LEMMA ScrolledRows ==
  ASSUME NEW b \in [Row -> AnyRow], NEW color \in 0 .. 255
  PROVE  /\ Scrolled(b, color) \in [Row -> AnyRow]
         /\ \A y \in Row : y + 1 \in Row => Scrolled(b, color)[y] = b[y + 1]
         /\ Scrolled(b, color)[VGA_HEIGHT - 1] = BlankRow(color)
<1>1. BlankRow(color) \in AnyRow
  BY BlankRows
<1>2. VGA_HEIGHT - 1 \in Row /\ ~(VGA_HEIGHT - 1 + 1 \in Row)
  BY DEF Row
<1>3. \A y \in Row : Scrolled(b, color)[y] = IF y + 1 \in Row THEN b[y + 1] ELSE BlankRow(color)
  BY DEF Scrolled
<1>4. Scrolled(b, color) \in [Row -> AnyRow]
  BY <1>1 DEF Scrolled
<1> QED BY <1>2, <1>3, <1>4

(* The roll line by line.                                                  *)
LEMMA RollLines ==
  ASSUME TInv, NEW k \in 0 .. top + vga_row
  PROVE  Roll[k] = Marks(IF k < top THEN gone[k] ELSE vga_buffer[k - top])
  BY DEF Roll

(* What a new row does to the roll: one more line, an empty one.           *)
(* q is the roll with buffer b in place of the screen's.                   *)
LEMMA NewRowFeeds ==
  ASSUME TInv, NEW color \in 0 .. 255, NEW b \in [Row -> AnyRow], NewRow(b, color),
         \A y \in Row : y > vga_row => Marks(b[y]) = Sheet!BlankLine
  PROVE  /\ TInv'
         /\ vga_col' = 0
         /\ top' + vga_row' = top + vga_row + 1
         /\ Roll' = Sheet!Fed([k \in 0 .. top + vga_row |->
                                 Marks(IF k < top THEN gone[k] ELSE b[k - top])])
<1> DEFINE q == [k \in 0 .. top + vga_row |-> Marks(IF k < top THEN gone[k] ELSE b[k - top])]
<1>1. 0 \in Row /\ 0 \in Column /\ vga_row \in Nat /\ vga_row < VGA_HEIGHT
  BY DEF TInv, Row, Column
<1>2. CASE vga_row + 1 < VGA_HEIGHT
  <2>1. /\ vga_col' = 0 /\ vga_buffer' = b /\ vga_row' = vga_row + 1
        /\ gone' = gone /\ top' = top
    BY <1>2 DEF NewRow
  <2>2. vga_row + 1 \in Row
    BY <1>1, <1>2 DEF Row
  <2>3. TInv'
    <3>1. \A y \in Row : y > vga_row + 1 => y > vga_row
      BY <1>1 DEF Row
    <3>2. \A y \in Row : y > vga_row' => Marks(vga_buffer'[y]) = Sheet!BlankLine
      BY <2>1, <3>1
    <3>3. \A y \in Row : y > vga_row' => Marks(vga_buffer[y])' = Sheet!BlankLine
      BY <3>2 DEF Marks
    <3> QED BY <1>1, <2>1, <2>2, <3>3 DEF TInv, Sheet!BlankLine
  <2>4. ASSUME NEW k \in 0 .. top + vga_row + 1
        PROVE  Roll'[k] = IF k = top + vga_row + 1 THEN Sheet!BlankLine ELSE q[k]
    <3>1. Roll'[k] = Marks(IF k < top THEN gone[k] ELSE b[k - top])
      BY <2>1, <1>1 DEF Roll, TInv, Marks
    <3>2. CASE k = top + vga_row + 1
      <4>1. ~(k < top) /\ k - top = vga_row + 1
        BY <3>2, <1>1 DEF TInv
      <4> QED BY <4>1, <3>1, <3>2, <2>2, <1>1
    <3>3. CASE k # top + vga_row + 1
      BY <3>1, <3>3, <1>1 DEF TInv
    <3> QED BY <3>2, <3>3
  <2>5. Roll' = [k \in 0 .. top + vga_row + 1 |-> Roll'[k]]
    BY <2>1, <1>1 DEF Roll, TInv
  <2>6. Roll' = Sheet!Fed(q)
    BY <2>4, <2>5 DEF Sheet!Fed
  <2> QED BY <2>1, <2>3, <2>6, <1>1 DEF TInv
<1>3. CASE ~(vga_row + 1 < VGA_HEIGHT)
  <2>1. /\ vga_col' = 0 /\ vga_buffer' = Scrolled(b, color) /\ vga_row' = VGA_HEIGHT - 1
        /\ gone' = [k \in 0 .. top |-> IF k = top THEN b[0] ELSE gone[k]] /\ top' = top + 1
    BY <1>3 DEF NewRow
  <2>2. vga_row = VGA_HEIGHT - 1 /\ VGA_HEIGHT - 1 \in Row
    BY <1>1, <1>3 DEF Row
  <2>3. gone' \in [0 .. top' - 1 -> AnyRow] /\ top' \in Nat
    BY <2>1, <1>1 DEF TInv
  <2>4. TInv'
    <3>1. \A y \in Row : ~(y > vga_row')
      BY <2>1 DEF Row
    <3> QED BY <3>1, <2>1, <2>2, <2>3, <1>1, ScrolledRows DEF TInv
  <2>5. ASSUME NEW k \in 0 .. top + vga_row + 1
        PROVE  Roll'[k] = IF k = top + vga_row + 1 THEN Sheet!BlankLine ELSE q[k]
    <3>1. Roll'[k] = Marks(IF k < top + 1 THEN gone'[k] ELSE Scrolled(b, color)[k - (top + 1)])
      BY <2>1, <2>2, <1>1 DEF Roll, TInv, Marks
    <3>2. CASE k < top
      <4>1. gone'[k] = gone[k] /\ k < top + 1 /\ k # top + vga_row + 1 /\ k \in 0 .. top + vga_row
        BY <3>2, <2>1, <1>1 DEF TInv
      <4> QED BY <4>1, <3>1, <3>2
    <3>3. CASE k = top
      <4>1. /\ gone'[k] = b[0] /\ k < top + 1 /\ ~(k < top) /\ k - top = 0
            /\ k # top + vga_row + 1 /\ k \in 0 .. top + vga_row
        BY <3>3, <2>1, <1>1 DEF TInv
      <4> QED BY <4>1, <3>1
    <3>4. CASE k > top /\ k # top + vga_row + 1
      <4>1. /\ ~(k < top + 1) /\ ~(k < top) /\ k \in 0 .. top + vga_row
            /\ k - (top + 1) \in Row /\ (k - (top + 1)) + 1 = k - top /\ k - top \in Row
        BY <3>4, <2>2, <1>1 DEF TInv, Row
      <4>2. \A y \in Row : y + 1 \in Row => Scrolled(b, color)[y] = b[y + 1]
        BY ScrolledRows
      <4>3. Scrolled(b, color)[k - (top + 1)] = b[k - top]
        BY <4>1, <4>2
      <4> QED BY <4>1, <4>3, <3>1, <3>4
    <3>5. CASE k = top + vga_row + 1
      <4>1. ~(k < top + 1) /\ k - (top + 1) = VGA_HEIGHT - 1
        BY <3>5, <2>2, <1>1 DEF TInv
      <4>2. Scrolled(b, color)[VGA_HEIGHT - 1] = BlankRow(color)
        BY ScrolledRows
      <4>3. Roll'[k] = Marks(BlankRow(color))
        BY <4>1, <4>2, <3>1
      <4>4. Marks(BlankRow(color)) = Sheet!BlankLine
        BY BlankRows
      <4> QED BY <4>3, <4>4, <3>5
    <3>6. k < top \/ k = top \/ (k > top /\ k # top + vga_row + 1) \/ k = top + vga_row + 1
      BY <1>1 DEF TInv
    <3> QED BY <3>2, <3>3, <3>4, <3>5, <3>6, Zenon
  <2>6. Roll' = [k \in 0 .. top + vga_row + 1 |-> Roll'[k]]
    BY <2>1, <2>2, <1>1 DEF Roll, TInv
  <2>7. Roll' = Sheet!Fed(q)
    BY <2>5, <2>6 DEF Sheet!Fed
  <2> QED BY <2>1, <2>2, <2>4, <2>7, <1>1, SMTT(30) DEF TInv
<1> QED BY <1>2, <1>3

(* A character on the head's place marks that place of the roll only.      *)
LEMMA WriteMarks ==
  ASSUME TInv, NEW cell \in AnyCell
  PROVE  LET b == [vga_buffer EXCEPT ![vga_row][vga_col] = cell]
             i == IF cell.ch = 32 THEN Nothing ELSE cell
         IN /\ b \in [Row -> AnyRow]
            /\ \A y \in Row : y > vga_row => b[y] = vga_buffer[y]
            /\ [k \in 0 .. top + vga_row |-> Marks(IF k < top THEN gone[k] ELSE b[k - top])]
               = [Roll EXCEPT ![top + vga_row][vga_col] = i]
<1> DEFINE b == [vga_buffer EXCEPT ![vga_row][vga_col] = cell]
           i == IF cell.ch = 32 THEN Nothing ELSE cell
           q == [k \in 0 .. top + vga_row |-> Marks(IF k < top THEN gone[k] ELSE b[k - top])]
           r == [Roll EXCEPT ![top + vga_row][vga_col] = i]
<1>1. /\ vga_buffer[vga_row] \in AnyRow
      /\ [vga_buffer[vga_row] EXCEPT ![vga_col] = cell] \in AnyRow
  BY DEF TInv, AnyRow
<1>2. /\ b \in [Row -> AnyRow]
      /\ b[vga_row] = [vga_buffer[vga_row] EXCEPT ![vga_col] = cell]
      /\ \A y \in Row : y # vga_row => b[y] = vga_buffer[y]
  BY <1>1 DEF TInv
<1>3. vga_row \in Nat /\ top \in Nat
  BY DEF TInv, Row
<1>4. Marks(b[vga_row]) = [Marks(vga_buffer[vga_row]) EXCEPT ![vga_col] = i]
  BY <1>1, <1>2 DEF Marks, AnyRow, TInv
<1>5. /\ Roll = [k \in 0 .. top + vga_row |-> Roll[k]]
      /\ Roll[top + vga_row] = Marks(vga_buffer[vga_row])
  BY <1>3, RollLines DEF Roll
<1>6. ASSUME NEW k \in 0 .. top + vga_row PROVE q[k] = r[k]
  <2>1. CASE k = top + vga_row
    <3>1. ~(k < top) /\ k - top = vga_row
      BY <2>1, <1>3
    <3>2. q[k] = Marks(b[vga_row])
      BY <3>1
    <3>3. r[k] = [Roll[top + vga_row] EXCEPT ![vga_col] = i]
      BY <2>1, <1>5
    <3> QED BY <3>2, <3>3, <1>4, <1>5
  <2>2. CASE k # top + vga_row
    <3>1. k < top \/ (k - top \in Row /\ k - top # vga_row)
      BY <2>2, <1>3 DEF TInv, Row
    <3>2. r[k] = Roll[k]
      BY <2>2, <1>5
    <3> QED BY <3>1, <3>2, <1>2, RollLines
  <2> QED BY <2>1, <2>2
<1>7. r = [k \in 0 .. top + vga_row |-> r[k]]
  BY <1>5
<1>8. q = r
  BY <1>6, <1>7
<1>9. \A y \in Row : y > vga_row => y # vga_row
  BY <1>3 DEF Row
<1> QED BY <1>2, <1>8, <1>9

(* Clearing the screen takes a new sheet.                                  *)
LEMMA ClearTears ==
  ASSUME NEW color \in Color, vga_text_clear(color)
  PROVE  TInv' /\ Sheet!Tear
<1>1. color \in 0 .. 255
  OBVIOUS
<1>2. BlankRow(color) \in AnyRow /\ Marks(BlankRow(color)) = Sheet!BlankLine
  BY <1>1, BlankRows
<1>3. vga_buffer' \in [Row -> AnyRow] /\ \A y \in Row : vga_buffer'[y] = BlankRow(color)
  BY <1>2 DEF vga_text_clear, Cleared
<1>4. gone' \in [0 .. top' - 1 -> AnyRow]
  BY DEF vga_text_clear
<1>5. \A y \in Row : Marks(vga_buffer[y])' = Sheet!BlankLine
  BY <1>2, <1>3 DEF Marks
<1>6. TInv'
  BY <1>3, <1>4, <1>5 DEF TInv, vga_text_clear, Row, Column, Sheet!BlankLine
<1>7. Roll' = [k \in {0} |-> Sheet!BlankLine]
  <2>1. vga_buffer'[0] = BlankRow(color)
    BY <1>3 DEF Row
  <2> QED BY <2>1, <1>2 DEF Roll, vga_text_clear, Marks
<1> QED BY <1>6, <1>7 DEF Sheet!Tear, Sheet!Fresh, vga_text_clear

(* Printing a character is a return, a feed or a mark.                     *)
LEMMA PutcWrites ==
  ASSUME TInv, NEW c \in Char, NEW color \in Color, vga_text_putc(c, color)
  PROVE  /\ TInv'
         /\ Sheet!Return \/ Sheet!Feed \/ \E i \in Cell \cup {Nothing} : Sheet!Write(i)
<1> DEFINE cell == vga_entry(c, color)
           b == [vga_buffer EXCEPT ![vga_row][vga_col] = cell]
           i == IF cell.ch = 32 THEN Nothing ELSE cell
           mark == [k \in 0 .. top + vga_row |-> Marks(IF k < top THEN gone[k] ELSE b[k - top])]
<1>0. color \in 0 .. 255 /\ cell \in AnyCell /\ i \in Cell \cup {Nothing}
  BY EntryIsCell DEF vga_entry, Cell
<1>1. CASE c = 10
  <2>1. NewRow(vga_buffer, color)
    BY <1>1 DEF vga_text_putc
  <2>2. /\ TInv' /\ vga_col' = 0 /\ top' + vga_row' = top + vga_row + 1
        /\ Roll' = Sheet!Fed(Roll)
    <3>1. /\ vga_buffer \in [Row -> AnyRow]
          /\ \A y \in Row : y > vga_row => Marks(vga_buffer[y]) = Sheet!BlankLine
      BY DEF TInv
    <3>2. Roll = [k \in 0 .. top + vga_row |-> Marks(IF k < top THEN gone[k] ELSE vga_buffer[k - top])]
      BY DEF Roll
    <3> QED BY <1>0, <2>1, <3>1, <3>2, NewRowFeeds
  <2> QED BY <2>2 DEF Sheet!Feed
<1>2. CASE c = 13
  <2>1. vga_col' = 0 /\ UNCHANGED <<vga_buffer, vga_row, gone, top>>
    BY <1>2 DEF vga_text_putc
  <2>2. TInv'
    BY <2>1 DEF TInv, Marks, Sheet!BlankLine, Column
  <2>3. Roll' = Roll
    BY <2>1 DEF Roll, Marks
  <2> QED BY <2>1, <2>2, <2>3 DEF Sheet!Return
<1>3. CASE c # 10 /\ c # 13
  <2>1. /\ b \in [Row -> AnyRow]
        /\ \A y \in Row : y > vga_row => b[y] = vga_buffer[y]
        /\ mark = [Roll EXCEPT ![top + vga_row][vga_col] = i]
    BY <1>0, WriteMarks
  <2>2. \A y \in Row : y > vga_row => Marks(b[y]) = Sheet!BlankLine
    BY <2>1 DEF TInv
  <2>3. CASE vga_col + 1 < VGA_WIDTH
    <3>1. vga_buffer' = b /\ vga_col' = vga_col + 1 /\ UNCHANGED <<vga_row, gone, top>>
      BY <1>3, <2>3 DEF vga_text_putc
    <3>2. \A y \in Row : y > vga_row => Marks(vga_buffer[y])' = Sheet!BlankLine
      BY <3>1, <2>2 DEF Marks
    <3>3. TInv'
      <4>1. vga_col' \in Column
        BY <3>1, <2>3 DEF TInv, Column
      <4>2. Sheet!BlankLine' = Sheet!BlankLine
        BY DEF Sheet!BlankLine
      <4> QED BY <4>1, <4>2, <3>1, <3>2, <2>1 DEF TInv
    <3>4. Roll' = mark
      BY <3>1 DEF Roll, Marks
    <3>5. Sheet!Write(i)
      BY <3>1, <3>4, <2>1, <2>3 DEF Sheet!Write
    <3> QED BY <3>3, <3>5, <1>0
  <2>4. CASE ~(vga_col + 1 < VGA_WIDTH)
    <3>1. NewRow(b, color)
      BY <1>3, <2>4 DEF vga_text_putc
    <3>2. TInv' /\ vga_col' = 0 /\ top' + vga_row' = top + vga_row + 1 /\ Roll' = Sheet!Fed(mark)
      BY <1>0, <2>1, <2>2, <3>1, NewRowFeeds, ZenonT(60)
    <3>3. Sheet!Write(i)
      BY <3>2, <2>1, <2>4 DEF Sheet!Write
    <3> QED BY <3>2, <3>3, <1>0
  <2> QED BY <2>3, <2>4
<1> QED BY <1>1, <1>2, <1>3

-----------------------------------------------------------------------------

(* The head never leaves the screen and the rows below it are empty        *)
(* (vga_text.c:41-58).                                                     *)
THEOREM TInvAlways == TerminalSpec => []TInv
<1>1. vga_text_init => TInv
  <2> SUFFICES ASSUME vga_text_init PROVE TInv
    OBVIOUS
  <2>1. BlankRow(7) \in AnyRow /\ Marks(BlankRow(7)) = Sheet!BlankLine
    BY BlankRows
  <2>2. vga_buffer \in [Row -> AnyRow] /\ \A y \in Row : vga_buffer[y] = BlankRow(7)
    BY <2>1 DEF vga_text_init, Cleared
  <2>3. gone \in [0 .. top - 1 -> AnyRow]
    BY <2>1 DEF vga_text_init
  <2> QED BY <2>1, <2>2, <2>3 DEF TInv, vga_text_init, Row, Column
<1>2. TInv /\ [TerminalNext]_terminalVars => TInv'
  <2> SUFFICES ASSUME TInv, [TerminalNext]_terminalVars PROVE TInv'
    OBVIOUS
  <2>1. ASSUME NEW color \in Color, vga_text_clear(color) PROVE TInv'
    BY <2>1, ClearTears
  <2>2. ASSUME NEW c \in Char, NEW color \in Color, vga_text_putc(c, color) PROVE TInv'
    BY <2>2, PutcWrites
  <2>3. CASE UNCHANGED terminalVars
    BY <2>3 DEF terminalVars, TInv, Marks, Sheet!BlankLine
  <2> QED BY <2>1, <2>2, <2>3 DEF TerminalNext
<1> QED BY <1>1, <1>2, PTL DEF TerminalSpec

(* The screen implements the roll of paper (vga_text.c), whatever its size *)
(* and whatever is printed on it.                                          *)
THEOREM ImplementsPaperAlways == TerminalSpec => ImplementsPaper
<1>1. vga_text_init => Sheet!Fresh
  <2> SUFFICES ASSUME vga_text_init PROVE Sheet!Fresh
    OBVIOUS
  <2>1. vga_buffer[0] = BlankRow(7)
    BY DEF vga_text_init, Cleared, Row
  <2>2. top = 0 /\ vga_row = 0 /\ 0 .. 0 = {0} /\ Marks(BlankRow(7)) = Sheet!BlankLine
    BY BlankRows DEF vga_text_init
  <2>3. Roll = [k \in 0 .. 0 |-> Marks(vga_buffer[k])]
    BY <2>2 DEF Roll
  <2>4. Roll = [k \in {0} |-> Sheet!BlankLine]
    BY <2>1, <2>2, <2>3
  <2> QED BY <2>4 DEF Sheet!Fresh, vga_text_init
<1>2. TInv /\ [TerminalNext]_terminalVars => [Sheet!PaperNext]_<<Roll, top + vga_row, vga_col>>
  <2> SUFFICES ASSUME TInv, [TerminalNext]_terminalVars
               PROVE  [Sheet!PaperNext]_<<Roll, top + vga_row, vga_col>>
    OBVIOUS
  <2>1. ASSUME NEW color \in Color, vga_text_clear(color) PROVE Sheet!Tear
    BY <2>1, ClearTears
  <2>2. ASSUME NEW c \in Char, NEW color \in Color, vga_text_putc(c, color)
        PROVE  Sheet!Return \/ Sheet!Feed \/ \E i \in Cell \cup {Nothing} : Sheet!Write(i)
    BY <2>2, PutcWrites
  <2>3. CASE UNCHANGED terminalVars
    BY <2>3 DEF terminalVars, Roll, Marks
  <2> QED BY <2>1, <2>2, <2>3 DEF TerminalNext, Sheet!PaperNext
<1> QED BY <1>1, <1>2, TInvAlways, PTL DEF TerminalSpec, ImplementsPaper, Sheet!PaperSpec
=============================================================================
