------------------------------- MODULE Phys -------------------------------
(***************************************************************************)
(* The physical page allocator, kernel/mm/phys.c, and its clients.         *)
(*                                                                         *)
(* phys_init runs once, before interrupts are enabled: it parses the       *)
(* Multiboot memory map and then reserves four fixed ranges.  Its two      *)
(* loops are modelled one memory-map entry and one range at a time.        *)
(* phys_alloc_page and phys_free_page never run at the same time (nothing  *)
(* calls them from a handler), so each call is one action.                 *)
(*                                                                         *)
(* The bitmap is the set of the pages whose bit is 1.                      *)
(***************************************************************************)
EXTENDS Integers, FiniteSets, Sequences

CONSTANTS
  PAGE_SIZE,      \* bytes per page (4096)
  TOTAL_PAGES,    \* pages below the identity-map cap (2^20)
  Maps,           \* memory maps the boot loader may pass; << >> is "none"
  FALLBACK,       \* bytes assumed when there is no map (64 MB)
  Ranges          \* the ranges phys_init reserves, in its order

Page    == 0 .. TOTAL_PAGES - 1
PhysMem == TOTAL_PAGES * PAGE_SIZE     \* MAX_PHYS_MEM

Entry     == [addr : Nat, len : Nat, type : Nat]
ByteRange == [start : Nat, size : Nat]

ASSUME PhysAssumption ==
  /\ PAGE_SIZE \in Nat \ {0}
  /\ TOTAL_PAGES \in Nat \ {0}
  /\ Maps \subseteq Seq(Entry)
  /\ FALLBACK \in 0 .. TOTAL_PAGES * PAGE_SIZE
  /\ Ranges \in Seq(ByteRange)

VARIABLES
  mmap,                 \* the memory map passed to phys_init
  step,                 \* where phys_init is: <<"parse", i>>, <<"reserve", i>> or <<"ready", 0>>
  page_bitmap,          \* pages marked reserved or allocated
  total_memory_bytes,
  free_memory_bytes,
  ret,                  \* what phys_alloc_page returned last
  owned,                \* the pages clients hold
  misused               \* history: a client has released the 0 of a failed call

vars == <<mmap, step, page_bitmap, total_memory_bytes, free_memory_bytes, ret, owned, misused>>

TypeOK ==
  /\ mmap \in Maps
  /\ step \in {"parse", "reserve", "ready"} \X Nat
  /\ page_bitmap \subseteq Page
  /\ total_memory_bytes \in Nat
  /\ free_memory_bytes \in Nat
  /\ ret \in Nat
  /\ owned \subseteq Page
  /\ misused \in BOOLEAN

(* Every page starts out reserved.                                         *)
Init ==
  /\ mmap \in Maps
  /\ step = <<"parse", 1>>
  /\ page_bitmap = Page
  /\ total_memory_bytes = 0
  /\ free_memory_bytes = 0
  /\ ret = 1         \* not an answer
  /\ owned = {}
  /\ misused = FALSE

Free == Page \ page_bitmap

-----------------------------------------------------------------------------
(* phys_init: the memory map.                                              *)

(* The pages the loop of an entry clears: as many as the length holds,     *)
(* from the page its address lies in.                                      *)
MutPagesOf(e) ==       \* the last, incomplete page counts
  {p \in Page : e.addr \div PAGE_SIZE <= p /\ p <= e.addr \div PAGE_SIZE + e.len \div PAGE_SIZE}
PagesOf(e) ==
  {p \in Page : e.addr \div PAGE_SIZE <= p /\ p < e.addr \div PAGE_SIZE + e.len \div PAGE_SIZE}

Usable(e) == e.type = 1 /\ e.addr < PhysMem

ParseEntry ==
  /\ step[1] = "parse"
  /\ step[2] \in DOMAIN mmap
  /\ LET e == mmap[step[2]]
     IN IF Usable(e)
        THEN /\ page_bitmap' = page_bitmap \ PagesOf(e)
             /\ free_memory_bytes' = free_memory_bytes + PAGE_SIZE * Cardinality(PagesOf(e))
             /\ total_memory_bytes' = total_memory_bytes + e.len
        ELSE UNCHANGED <<page_bitmap, free_memory_bytes, total_memory_bytes>>
  /\ step' = <<"parse", step[2] + 1>>
  /\ UNCHANGED <<mmap, ret, owned, misused>>

ParseDone ==
  /\ mmap # << >>
  /\ step = <<"parse", Len(mmap) + 1>>
  /\ step' = <<"reserve", 1>>
  /\ UNCHANGED <<mmap, page_bitmap, total_memory_bytes, free_memory_bytes, ret, owned, misused>>

(* Without a map the low FALLBACK bytes are taken to be RAM.               *)
Fallback ==
  LET low == {p \in Page : p < FALLBACK \div PAGE_SIZE}
  IN /\ mmap = << >>
     /\ step = <<"parse", 1>>
     /\ total_memory_bytes' = FALLBACK
     /\ page_bitmap' = page_bitmap \ low
     /\ free_memory_bytes' = free_memory_bytes + PAGE_SIZE * (FALLBACK \div PAGE_SIZE)
     /\ step' = <<"reserve", 1>>
     /\ UNCHANGED <<mmap, ret, owned, misused>>

-----------------------------------------------------------------------------
(* phys_init: the reserved ranges.                                         *)

(* k times: if (free_memory_bytes >= PAGE_SIZE) free_memory_bytes -= it.   *)
Debit(bytes, k) == IF bytes >= k * PAGE_SIZE THEN bytes - k * PAGE_SIZE ELSE bytes % PAGE_SIZE

(* The pages a range touches, a partly touched last one included.          *)
MutRangeStart(r) ==    \* the first page is left out
  {p \in Page : /\ r.start \div PAGE_SIZE < p
                /\ p < (r.start + r.size + PAGE_SIZE - 1) \div PAGE_SIZE}
MutRangeEnd(r) ==      \* the end is the size
  {p \in Page : r.start \div PAGE_SIZE <= p /\ p < (r.size + PAGE_SIZE - 1) \div PAGE_SIZE}
RangePages(r) ==
  {p \in Page : /\ r.start \div PAGE_SIZE <= p
                /\ p < (r.start + r.size + PAGE_SIZE - 1) \div PAGE_SIZE}

MutMarkRange(r) ==     \* pages that were reserved already are debited again
  /\ page_bitmap' = page_bitmap \cup RangePages(r)
  /\ free_memory_bytes' = Debit(free_memory_bytes, Cardinality(RangePages(r)))
mark_range_reserved(r) ==
  /\ page_bitmap' = page_bitmap \cup RangePages(r)
  /\ free_memory_bytes' = Debit(free_memory_bytes, Cardinality(RangePages(r) \ page_bitmap))

ReserveRange ==
  /\ step[1] = "reserve"
  /\ step[2] \in DOMAIN Ranges
  /\ mark_range_reserved(Ranges[step[2]])
  /\ step' = <<"reserve", step[2] + 1>>
  /\ UNCHANGED <<mmap, total_memory_bytes, ret, owned, misused>>

InitDone ==
  /\ step = <<"reserve", Len(Ranges) + 1>>
  /\ step' = <<"ready", 0>>
  /\ UNCHANGED <<mmap, page_bitmap, total_memory_bytes, free_memory_bytes, ret, owned, misused>>

Ready == step[1] = "ready"

-----------------------------------------------------------------------------
(* The calls.                                                              *)

Lowest(S) == CHOOSE p \in S : \A other \in S : p <= other

MutTake(p) ==          \* the bit is not set
  /\ free_memory_bytes' = Debit(free_memory_bytes, 1)
  /\ ret' = p * PAGE_SIZE
  /\ UNCHANGED page_bitmap
Take(p) ==
  /\ page_bitmap' = page_bitmap \cup {p}
  /\ free_memory_bytes' = Debit(free_memory_bytes, 1)
  /\ ret' = p * PAGE_SIZE

(* First fit; 0 when no page is free.  The caller owns what it gets.       *)
phys_alloc_page ==
  /\ Ready
  /\ IF Free = {}
     THEN /\ ret' = 0
          /\ UNCHANGED <<page_bitmap, free_memory_bytes, owned>>
     ELSE /\ Take(Lowest(Free))
          /\ owned' = owned \cup {Lowest(Free)}
  /\ UNCHANGED <<mmap, step, total_memory_bytes, misused>>

GiveBack(p) ==
  IF p < TOTAL_PAGES /\ p \in page_bitmap
  THEN /\ page_bitmap' = page_bitmap \ {p}
       /\ free_memory_bytes' = free_memory_bytes + PAGE_SIZE
  ELSE UNCHANGED <<page_bitmap, free_memory_bytes>>

phys_free_page(page_addr) ==
  /\ Ready
  /\ GiveBack(page_addr \div PAGE_SIZE)
  /\ owned' = owned \ {page_addr \div PAGE_SIZE}
  /\ UNCHANGED <<mmap, step, total_memory_bytes, ret>>

(* Clients give back pages they hold, once: the allocator cannot tell a    *)
(* page given back twice from the page of its next owner.  One that does   *)
(* not check for failure also gives back the 0 it got instead of a page.   *)
ClientFree ==
  \/ /\ \E p \in owned : phys_free_page(p * PAGE_SIZE)
     /\ UNCHANGED misused
  \/ /\ ret = 0
     /\ phys_free_page(0)
     /\ misused' = TRUE

Next ==
  \/ ParseEntry \/ ParseDone \/ Fallback
  \/ ReserveRange \/ InitDone
  \/ phys_alloc_page \/ ClientFree

Spec == Init /\ [][Next]_vars

-----------------------------------------------------------------------------
(* What the allocator promises.                                            *)

(* The pages with a byte in a reserved range.                              *)
Touches(p, r) == p * PAGE_SIZE < r.start + r.size /\ r.start < (p + 1) * PAGE_SIZE
ReservedPages == {p \in Page : \E i \in DOMAIN Ranges : Touches(p, Ranges[i])}

(* No page is listed twice.  The parser counts such a page twice.          *)
PageDisjoint(m) ==
  \A i, j \in DOMAIN m :
    i # j /\ Usable(m[i]) /\ Usable(m[j]) => PagesOf(m[i]) \cap PagesOf(m[j]) = {}

(* What phys_init has established so far: without a map, nothing is clear  *)
(* before the fallback; the pages of entries not yet parsed are still      *)
(* marked; those of the ranges it has dealt with are marked.               *)
InitProgress ==
  /\ step[1] = "parse" /\ mmap = << >> => page_bitmap = Page
  /\ step[1] = "parse" /\ PageDisjoint(mmap) =>
       \A i \in DOMAIN mmap : i >= step[2] /\ Usable(mmap[i]) => PagesOf(mmap[i]) \subseteq page_bitmap
  /\ step[1] = "reserve" =>
       \A i \in DOMAIN Ranges : i < step[2] => RangePages(Ranges[i]) \subseteq page_bitmap
  /\ ~Ready => owned = {}

(* From then on clients hold marked pages outside the ranges, and release  *)
(* only those; unless one releases the 0.                                 *)
ReservedMarked ==
  /\ owned \subseteq page_bitmap
  /\ Ready => \A i \in DOMAIN Ranges : RangePages(Ranges[i]) \subseteq page_bitmap \ owned

(* The inductive invariant.                                                *)
PhysInv == TypeOK /\ InitProgress /\ (~misused => ReservedMarked)

(* Whatever the map, even one that lists pages twice, the counter is never *)
(* below what can be allocated, so no debit is ever skipped.               *)
NeverUndercounts == free_memory_bytes >= PAGE_SIZE * Cardinality(Free)

(* The free-byte counter is the size of the pages whose bit is clear,      *)
(* through parsing, overlapping reservations, allocation and release: the  *)
(* guards "if (free_memory_bytes >= PAGE_SIZE)" never hide an underflow    *)
(* (phys.c:37-39, 69-70, 106-108, 117-119).  A map that lists a page twice *)
(* makes it too large, as the parser counts entries, and never too small.  *)
AccountingExact ==
  /\ NeverUndercounts
  /\ PageDisjoint(mmap) => free_memory_bytes = PAGE_SIZE * Cardinality(Free)

(* A page some client holds is marked, so first fit cannot find it again,  *)
(* and no client ever holds a page of a reserved range, although           *)
(* phys_free_page itself protects none of them (phys.c:85-95, 102-121);    *)
(* until a client releases the 0 of a failed call.                         *)
OwnedSafe ==
  ~misused => /\ owned \subseteq page_bitmap
              /\ owned \cap ReservedPages = {}

(* A page that is handed out had no owner: two clients never share one     *)
(* (phys.c:102-113), until one releases that 0.                            *)
NoSharing == [][~misused /\ phys_alloc_page /\ Free # {} => ret' \div PAGE_SIZE \notin owned]_vars

(* Memory clients hold is RAM: every byte of an owned page lies in a       *)
(* type-1 entry of the map ("Identify available RAM regions (type == 1)",  *)
(* PHASE_3_PLAN.md:17; phys.c:59-70), if those begin where a page begins.  *)
Aligned(m) == \A i \in DOMAIN m : Usable(m[i]) => m[i].addr % PAGE_SIZE = 0
IsRam(b) == \E i \in DOMAIN mmap : /\ mmap[i].type = 1
                                   /\ mmap[i].addr <= b
                                   /\ b < mmap[i].addr + mmap[i].len
OwnedIsRam ==
  ~misused /\ mmap # << >> /\ Aligned(mmap) =>
    \A p \in owned : \A b \in p * PAGE_SIZE .. (p + 1) * PAGE_SIZE - 1 : IsRam(b)

(* The address 0 is only ever the answer "out of physical memory": page 0  *)
(* lies in the reserved low region and is never handed out (phys.c:86,     *)
(* 112), as long as no client releases that answer.                        *)
ZeroMeansExhausted == [][~misused /\ phys_alloc_page /\ ret' = 0 => Free = {}]_vars
=============================================================================
