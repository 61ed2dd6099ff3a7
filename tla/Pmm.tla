-------------------------------- MODULE Pmm --------------------------------
(***************************************************************************)
(* kernel/mm/pmm.cpp: the physical page allocator.  One bit per page of a  *)
(* managed range says whether it is used; pmm_init marks everything used,  *)
(* frees the managed pages one by one and then reserves ranges again.      *)
(* A loop over pages is one set operation here: each page's mark is        *)
(* independent of the others, and the free counter moves by the number of  *)
(* bits that really change.                                                *)
(***************************************************************************)
EXTENDS Page, Sequences, FiniteSets

CONSTANTS
  kMaxManagedPages,  \* pages the bitmap can describe (32768)
  kBitsPerWord,      \* bits of a bitmap word (64)
  ManagedRanges,     \* the ranges pmm_init is called with, as [base, size]
  ReservedLists,     \* the sequences of reserved ranges it is called with
  NULL               \* the value of config before the first pmm_init

kBitmapWords == (kMaxManagedPages + kBitsPerWord - 1) \div kBitsPerWord
Bits == 0..(kBitmapWords * kBitsPerWord - 1)

(* A range ends before the top of the address space, as the ranges of      *)
(* pmm_platform.cpp and of the tests do.                                   *)
PhysicalRange == {r \in [base : Addr, size : Addr] : r.base + r.size + kPageSize <= AddrSpace}

ASSUME PmmAssumption ==
  /\ kMaxManagedPages \in Nat \ {0} /\ kBitsPerWord \in Nat \ {0}
  /\ \A m \in ManagedRanges : m \in PhysicalRange
  /\ \A l \in ReservedLists : \A i \in DOMAIN l : l[i] \in PhysicalRange

VARIABLES
  used,             \* g_used_bitmap: the bits that are set
  g_managed_base, g_total_pages, g_free_pages,
  owned,            \* pages handed out by alloc_page and not given back
  config,           \* history: the arguments of the last pmm_init
  pool              \* history: the pages that were free behind it

vars == <<used, g_managed_base, g_total_pages, g_free_pages, owned, config, pool>>

-----------------------------------------------------------------------------
word_index(i) == i \div kBitsPerWord

(* The bit that bit_mask(b) selects in word w. *)
bit(w, b) == w * kBitsPerWord + (b % kBitsPerWord)

used_bit(i) == bit(word_index(i), i)
free_bit(i) == bit(word_index(i), word_index(i))   \* bit_mask(word), pmm.cpp:46

used_index(i) == used_bit(i) \in used

pa_to_index(pa) == minus(pa, g_managed_base) \div kPageSize
index_to_pa(i)  == plus(g_managed_base, i * kPageSize)

(* The pages from start up to end, as indices of a bitmap based at base. *)
IndexRange(base, start, end) ==
  {minus(pa, base) \div kPageSize :
     pa \in {a \in start..(end - 1) : (a - start) % kPageSize = 0}}

(* mark_used_index and mark_free_index over a set of pages: the bitmap and *)
(* the counter.                                                            *)
mark_used(bits, free, pages) ==
  LET set == {used_bit(i) : i \in pages} \ bits
      n   == Cardinality(set)
  IN [bits |-> bits \cup set, free |-> IF n < free THEN free - n ELSE 0]

(* Mutant: the counter counts pages whether or not their bit changes. *)
mark_free_blindly(bits, free, pages) ==
  [bits |-> bits \ {free_bit(i) : i \in pages}, free |-> free + Cardinality(pages)]

mark_free(bits, free, pages) ==
  LET cleared == {free_bit(i) : i \in pages} \cap bits
  IN [bits |-> bits \ cleared, free |-> free + Cardinality(cleared)]

(* Mutant: the end of a reserved range is rounded down. *)
reserve_end_down(r) == align_down(plus(r.base, r.size))

reserve_end(r) == align_up(plus(r.base, r.size))

(* What reserve_range marks for one range: clamped to the managed pages. *)
reserve_range(base, total, r) ==
  LET managed_end   == plus(base, total * kPageSize)
      reserve_start == align_down(r.base)
      start == IF reserve_start < base THEN base ELSE reserve_start
      end   == IF reserve_end(r) > managed_end THEN managed_end ELSE reserve_end(r)
  IN IF r.size = 0 \/ total = 0 \/ start >= end THEN {} ELSE IndexRange(base, start, end)

(* Mutant: more pages than the bitmap can describe. *)
uncapped(count) == count

capped(count) == IF count < kMaxManagedPages THEN count ELSE kMaxManagedPages

pmm_init(m, reserved) ==
  LET base  == align_up(m.base)
      end   == align_down(plus(m.base, m.size))
      count == (end - base) \div kPageSize
      total == IF end <= base THEN 0 ELSE capped(count)
      freed == mark_free(Bits, 0, 0..(total - 1))
      done  == mark_used(freed.bits, freed.free,
                 UNION {reserve_range(base, total, reserved[i]) : i \in DOMAIN reserved})
  IN /\ used' = done.bits
     /\ g_managed_base' = base
     /\ g_total_pages' = total
     /\ g_free_pages' = done.free

(* The page alloc_page's scan stops at. *)
FirstFree(i) ==
  /\ ~used_index(i)
  /\ \A j \in 0..(i - 1) : used_index(j)

(* Mutant: the page is handed out unmarked. *)
alloc_unmarked(i) == UNCHANGED <<used, g_free_pages>>

alloc_page(i) ==
  LET m == mark_used(used, g_free_pages, {i})
  IN used' = m.bits /\ g_free_pages' = m.free

is_managed_page(pa) ==
  /\ is_page_aligned(pa)
  /\ pa >= g_managed_base
  /\ pa < plus(g_managed_base, g_total_pages * kPageSize)

is_page_free(pa) == is_managed_page(pa) /\ ~used_index(pa_to_index(pa))

(* free_page's early returns, and what it does behind them. *)
free_rejects(pa) ==
  \/ ~is_managed_page(pa)
  \/ ~is_page_aligned(pa)
  \/ ~used_index(pa_to_index(pa))

free_page(pa) ==
  LET m == mark_free(used, g_free_pages, {pa_to_index(pa)})
  IN ~free_rejects(pa) /\ used' = m.bits /\ g_free_pages' = m.free

-----------------------------------------------------------------------------
(* Static storage after .bss is cleared. *)
Init ==
  /\ used = {}
  /\ g_managed_base = 0 /\ g_total_pages = 0 /\ g_free_pages = 0
  /\ owned = {}
  /\ config = NULL
  /\ pool = {}

FreePages == {index_to_pa(i) : i \in {j \in 0..(g_total_pages - 1) : ~used_index(j)}}

PmmInit(m, l) ==
  /\ pmm_init(m, l)
  /\ owned' = {}
  /\ config' = [managed |-> m, reserved |-> l]
  /\ pool' = FreePages'

Alloc ==
  /\ \E i \in 0..(g_total_pages - 1) :
       /\ FirstFree(i)
       /\ alloc_page(i)
       /\ owned' = owned \cup {index_to_pa(i)}
  /\ UNCHANGED <<g_managed_base, g_total_pages, config, pool>>

(* alloc_page returns nullptr. *)
AllocFails == (\A i \in 0..(g_total_pages - 1) : used_index(i)) /\ UNCHANGED vars

(* Callers give back pages they own. *)
Free(pa) ==
  /\ pa \in owned
  /\ free_page(pa)
  /\ owned' = owned \ {pa}
  /\ UNCHANGED <<g_managed_base, g_total_pages, config, pool>>

(* free_page returns false. *)
FreeFails(pa) == free_rejects(pa) /\ UNCHANGED vars

Next ==
  \/ \E m \in ManagedRanges, l \in ReservedLists : PmmInit(m, l)
  \/ Alloc \/ AllocFails
  \/ \E pa \in owned : Free(pa)
  \/ \E pa \in Addr : FreeFails(pa)

Spec == Init /\ [][Next]_vars

-----------------------------------------------------------------------------
(* The types of the allocator's bitmap, counters and pages. *)
TypeOK ==
  /\ used \subseteq Bits
  /\ g_managed_base \in Addr
  /\ g_total_pages \in 0..kMaxManagedPages
  /\ g_free_pages \in 0..(kBitmapWords * kBitsPerWord)
  /\ owned \subseteq Addr /\ pool \subseteq Addr

Overlaps(pa, r) == r.size > 0 /\ pa < r.base + r.size /\ r.base < pa + kPageSize

(* Byte for byte, every page a caller holds lies inside the managed range  *)
(* it asked for, is page aligned, and touches no reserved byte: reserve_   *)
(* range's rounding and clamping lose none (pmm.cpp:53-72, 75-100).        *)
OwnedAvoidReserved ==
  \A pa \in owned :
    /\ is_page_aligned(pa)
    /\ pa >= config.managed.base
    /\ pa + kPageSize <= config.managed.base + config.managed.size
    /\ \A i \in DOMAIN config.reserved : ~Overlaps(pa, config.reserved[i])

(* Nothing is handed out twice, lost or conjured up: over any sequence of  *)
(* allocations and frees the pages that were free behind pmm_init are      *)
(* either free or owned by one caller, never both (pmm.cpp:102-125).       *)
PoolConserved == owned \cup FreePages = pool /\ owned \cap FreePages = {}

(* The counter free_pages() reports never drifts from the bitmap, although *)
(* it is kept apart from it and decremented with a floor at zero           *)
(* (pmm.cpp:33-51).                                                        *)
FreeCountExact == config # NULL => g_free_pages = Cardinality(Bits \ used)

(* What tests/mm/pmm_unit_tests.cpp expects of pmm_init: every managed page *)
(* that touches no reserved range is free afterwards (pmm.cpp:93-95 with    *)
(* the mask of pmm.cpp:46 frees one page of each bitmap word).              *)
InitFreesEveryUnreservedPage ==
  \A pa \in {index_to_pa(i) : i \in 0..(g_total_pages - 1)} :
    \/ pa \in pool
    \/ \E i \in DOMAIN config.reserved : Overlaps(pa, config.reserved[i])
=============================================================================
