----------------------------- MODULE PageTables -----------------------------
(***************************************************************************)
(* Sv39 page tables (kernel/arch/riscv/mm) and the kernel address space    *)
(* that is built out of them at boot (kernel/mm/kernel_address_space.cpp). *)
(*                                                                         *)
(* A table is a physical page that the allocator hands out, with whatever  *)
(* was in it; entries keep their flag bits and page number.  One step of   *)
(* map_range's loop is one step here, so a range that fails half way is    *)
(* seen half mapped.  The page allocator is the one of Pmm: the lowest     *)
(* free page, or none.                                                     *)
(***************************************************************************)
EXTENDS Page, Sequences, FiniteSets, FiniteSetsExt

CONSTANTS
  Fanout,              \* entries of a table (512)
  kDram, kUart0, kClint,   \* memory regions, as [base, size]
  Pools,               \* the sets of pages that may be free when boot starts
  Garbage,             \* what the entries of a free page may hold
  CallVAs, CallPAs, CallSizes   \* arguments of calls made after boot

nullptr == 0              \* the null pointer, as a physical address

Flag  == {"V", "R", "W", "X", "U", "G", "A", "D"}
Pte   == [ppn : 0..(AddrSpace \div kPageSize - 1), flags : SUBSET Flag]
Index == 0..(Fanout - 1)
VSize == Fanout * Fanout * Fanout * kPageSize
VAddr == 0..(VSize - 1)
Frames == UNION Pools

ASSUME TableAssumption ==
  /\ Fanout \in Nat \ {0}
  /\ VAddr \subseteq Addr
  /\ \A f \in Frames : f \in Addr \ {nullptr} /\ is_page_aligned(f)
  /\ Garbage \subseteq Pte
  /\ {kDram, kUart0, kClint} \subseteq [base : Addr, size : Addr]
  /\ CallVAs \cup CallPAs \cup CallSizes \subseteq Addr

VARIABLES
  mem,                 \* the entries in every page that can be a table
  free,                \* the pages alloc_page can hand out
  g_kernel_page_table, \* the root
  satp,                \* the control register: mode and root page number
  phase,               \* how far kmain is: "root", "regions" or "paging"
  todo,                \* the regions kernel_address_space_init has yet to map
  loop,                \* the map_range call in progress, or {}
  granted,             \* history: non-empty map_range calls that returned true
  pool                 \* history: the pages free when boot started

vars == <<mem, free, g_kernel_page_table, satp, phase, todo, loop, granted, pool>>

-----------------------------------------------------------------------------
(* sv39.h *)

(* What an entry of a table spans, from level 0 up. *)
Span == <<kPageSize, kPageSize * Fanout, kPageSize * Fanout * Fanout>>

vpn_index(va, level) == (va \div Span[level + 1]) % Fanout

make_pte(pa, flags) == [ppn |-> pa \div kPageSize, flags |-> flags]
pte_to_pa(pte)      == pte.ppn * kPageSize
pte_valid(pte)      == "V" \in pte.flags
pte_leaf(pte)       == pte.flags \cap {"R", "W", "X"} # {}

ZeroPte == [ppn |-> 0, flags |-> {}]

-----------------------------------------------------------------------------
(* page_table.cpp.  A walk is a record: the tables as they are by now, the *)
(* table it stands on, and whether it may go on.                           *)

(* Mutant: the new table keeps its old contents. *)
stale_page(tables, page) == tables

zero_page(tables, page) == [tables EXCEPT ![page] = [i \in Index |-> ZeroPte]]

(* Mutant: the new table's page stays on the free list. *)
alloc_page_twice(tables, avail) ==
  [tables |-> zero_page(tables, Min(avail)), avail |-> avail, table |-> Min(avail)]

(* Only where avail is not empty; alloc_page returns nullptr otherwise. *)
alloc_page_table(tables, avail) ==
  LET page == Min(avail)
  IN [tables |-> zero_page(tables, page), avail |-> avail \ {page}, table |-> page]

(* One level of map_page's walk. *)
Descend(w, va, level) ==
  LET i   == vpn_index(va, level)
      pte == w.tables[w.table][i]
      new == alloc_page_table(w.tables, w.avail)
  IN IF ~w.ok \/ (~pte_valid(pte) /\ w.avail = {}) \/ (pte_valid(pte) /\ pte_leaf(pte))
     THEN [w EXCEPT !.ok = FALSE]
     ELSE IF pte_valid(pte)
     THEN [w EXCEPT !.table = pte_to_pa(pte)]
     ELSE [ok |-> TRUE, avail |-> new.avail, table |-> new.table,
           tables |-> [new.tables EXCEPT ![w.table][i] = make_pte(new.table, {"V"})]]

(* Mutant: a mapping that is there is replaced. *)
occupied_never(pte) == FALSE

occupied(pte) == pte_valid(pte)

map_page(root, va, pa, flags) ==
  LET start == [ok |-> root # nullptr /\ is_page_aligned(va) /\ is_page_aligned(pa),
                tables |-> mem, avail |-> free, table |-> root]
      w == Descend(Descend(start, va, 2), va, 1)
      i == vpn_index(va, 0)
  IN IF ~w.ok \/ occupied(w.tables[w.table][i])
     THEN [w EXCEPT !.ok = FALSE]
     ELSE [w EXCEPT !.tables[w.table][i] = make_pte(pa, flags \cup {"V"})]

(* Mutant: the last, partial page is left out. *)
range_end_down(va, size) == align_down(plus(va, size))

range_end(va, size) == align_up(plus(va, size))

(* Mutant: only the virtual address is checked. *)
va_aligned(va, pa) == is_page_aligned(va)

aligned(va, pa) == is_page_aligned(va) /\ is_page_aligned(pa)

(* map_range up to its loop, and one turn of the loop. *)
map_range(va, pa, size, flags) ==
  LET call   == [va |-> va, pa |-> pa, size |-> size]
      enters == size # 0 /\ aligned(va, pa) /\ va < range_end(va, size)
  IN /\ loop' = IF ~enters THEN {} ELSE
          {[call |-> call, cur_va |-> va, cur_pa |-> pa, flags |-> flags,
            end |-> range_end(va, size)]}
     /\ granted' = granted \cup IF ~enters /\ aligned(va, pa) /\ size # 0 THEN {call} ELSE {}

Turn(l) ==
  LET m    == map_page(g_kernel_page_table, l.cur_va, l.cur_pa, l.flags)
      next == plus(l.cur_va, kPageSize)
      more == m.ok /\ next < l.end
  IN /\ mem' = m.tables
     /\ free' = m.avail
     /\ loop' = IF more THEN {[l EXCEPT !.cur_va = next, !.cur_pa = plus(@, kPageSize)]}
                        ELSE {}
     /\ granted' = granted \cup IF m.ok /\ ~more THEN {l.call} ELSE {}

Walk(va, root) ==
  LET e2 == mem[root][vpn_index(va, 2)]
      e1 == mem[pte_to_pa(e2)][vpn_index(va, 1)]
      e0 == mem[pte_to_pa(e1)][vpn_index(va, 0)]
  IN IF pte_leaf(e2) \/ ~pte_valid(e2) THEN e2
     ELSE IF pte_leaf(e1) \/ ~pte_valid(e1) THEN e1 ELSE e0

virt_to_phys(root, va) ==
  IF root = nullptr \/ ~pte_valid(Walk(va, root)) \/ ~pte_leaf(Walk(va, root))
  THEN 0 ELSE pte_to_pa(Walk(va, root)) + page_offset(va)

(* The level-0 table an unmap_page walk ends on; 0 where it returns false. *)
LeafTable(root, va) ==
  LET e2 == mem[root][vpn_index(va, 2)]
      e1 == mem[pte_to_pa(e2)][vpn_index(va, 1)]
      no(pte) == ~pte_valid(pte) \/ pte_leaf(pte)
  IN IF root = nullptr \/ no(e2) \/ no(e1) THEN nullptr ELSE pte_to_pa(e1)

unmap_page(root, va) ==
  LET t    == LeafTable(root, va)
      leaf == mem[t][vpn_index(va, 0)]
  IN /\ is_page_aligned(va) /\ t # nullptr /\ pte_valid(leaf) /\ pte_leaf(leaf)
     /\ mem' = [mem EXCEPT ![t][vpn_index(va, 0)] = ZeroPte]

-----------------------------------------------------------------------------
(* kernel_address_space.cpp, mmu.cpp and kmain *)

Ram    == {"R", "W", "X", "A", "D"}
Device == {"R", "W", "A", "D"}

(* The arguments map_device_region passes on. *)
map_device_region(r) ==
  [va |-> align_down(r.base), size |-> align_up(r.size), flags |-> Device]

Regions ==
  <<[va |-> kDram.base, size |-> kDram.size, flags |-> Ram],
    map_device_region(kUart0), map_device_region(kClint)>>

(* What callers ask for: virtual addresses that the tables tell apart,     *)
(* fewer than there are addresses, and physical memory that exists.  Page  *)
(* 0 is none: the 0 that virt_to_phys returns says "not mapped".           *)
ASSUME CallAssumption ==
  /\ VSize < AddrSpace
  /\ \A n \in 1..3 : /\ Regions[n].va # nullptr
                      /\ Regions[n].va + Regions[n].size <= VSize
  /\ CallVAs \subseteq VAddr
  /\ \A va \in CallVAs, size \in CallSizes : va + size <= VSize
  /\ \A pa \in CallPAs, size \in CallSizes : pa # nullptr /\ pa + size <= AddrSpace

(* The memory map (platform/qemu/memmap.h): the three regions begin on a   *)
(* page, are not empty, and share no page.                                 *)
ASSUME KernelAssumption ==
  /\ \A r \in {kDram, kUart0, kClint} :
       is_page_aligned(r.base) /\ r.size # 0 /\ r.base + r.size <= VSize
  /\ \A m, n \in 1..3 : m < n =>
       \/ range_end(Regions[m].va, Regions[m].size) <= Regions[n].va
       \/ range_end(Regions[n].va, Regions[n].size) <= Regions[m].va

Init ==
  /\ pool \in Pools
  /\ free = pool
  /\ \E g \in Garbage : mem = [f \in Frames |-> [i \in Index |-> g]]
  /\ g_kernel_page_table = nullptr
  /\ satp = [mode |-> "Bare", ppn |-> 0]
  /\ phase = "root" /\ todo = <<>>
  /\ loop = {} /\ granted = {}

(* kernel_address_space_init takes a root; without one it returns. *)
AllocRoot ==
  /\ phase = "root" /\ phase' = "regions"
  /\ IF free = {}
     THEN UNCHANGED <<mem, free, g_kernel_page_table, todo>>
     ELSE LET new == alloc_page_table(mem, free)
          IN /\ mem' = new.tables /\ free' = new.avail
             /\ g_kernel_page_table' = new.table
             /\ todo' = Regions
  /\ UNCHANGED <<satp, loop, granted, pool>>

(* It maps the regions in turn and looks at no result. *)
MapRegion ==
  /\ todo # <<>> /\ loop = {}
  /\ LET r == Head(todo) IN map_range(r.va, r.va, r.size, r.flags)
  /\ todo' = Tail(todo)
  /\ UNCHANGED <<mem, free, g_kernel_page_table, satp, phase, pool>>

MapTurn ==
  /\ \E l \in loop : Turn(l)
  /\ UNCHANGED <<g_kernel_page_table, satp, phase, todo, pool>>

make_satp(root) == [mode |-> "Sv39", ppn |-> root \div kPageSize]

(* kmain hands enable_sv39 whatever root there is. *)
enable_sv39 ==
  /\ phase = "regions" /\ todo = <<>> /\ loop = {}
  /\ phase' = "paging"
  /\ satp' = make_satp(g_kernel_page_table)
  /\ UNCHANGED <<mem, free, g_kernel_page_table, todo, loop, granted, pool>>

(* Calls behind boot: any range may be asked for, and what a caller        *)
(* unmaps is its own.                                                      *)
CallMapRange(va, pa, size) ==
  /\ phase = "paging" /\ loop = {}
  /\ map_range(va, pa, size, Ram)
  /\ UNCHANGED <<mem, free, g_kernel_page_table, satp, phase, todo, pool>>

Kernel(va) ==
  \E r \in {kDram, kUart0, kClint} :
    align_down(r.base) <= va /\ va < align_up(r.base + r.size)

CallUnmap(va) ==
  /\ phase = "paging" /\ loop = {} /\ ~Kernel(va)
  /\ unmap_page(g_kernel_page_table, va)
  /\ granted' = {c \in granted : ~(c.va <= va /\ va < c.va + c.size)}
  /\ UNCHANGED <<free, g_kernel_page_table, satp, phase, todo, loop, pool>>

Next ==
  \/ AllocRoot \/ MapRegion \/ MapTurn \/ enable_sv39
  \/ \E va \in CallVAs, pa \in CallPAs, size \in CallSizes : CallMapRange(va, pa, size)
  \/ \E va \in CallVAs : CallUnmap(va)

Spec == Init /\ [][Next]_vars

-----------------------------------------------------------------------------
PageAddr == {a \in Addr : is_page_aligned(a)}
Call     == [va : Addr, pa : Addr, size : Addr]

(* Types of the tables, the control state and the histories. *)
TypeOK ==
  /\ mem \in [Frames -> [Index -> Pte]]
  /\ free \subseteq pool /\ pool \in Pools
  /\ g_kernel_page_table \in pool \cup {nullptr}
  /\ satp \in [mode : {"Bare", "Sv39"}, ppn : 0..(AddrSpace \div kPageSize - 1)]
  /\ phase \in {"root", "regions", "paging"}
  /\ loop \subseteq [call : Call, cur_va : PageAddr, cur_pa : PageAddr, end : PageAddr,
                     flags : {Ram, Device}]
  /\ granted \subseteq Call

(* The promise of AddressSpace, of what virt_to_phys answers. *)
Translation == [a \in VAddr |-> virt_to_phys(g_kernel_page_table, a)]
AS == INSTANCE AddressSpace WITH translation <- Translation

(* What virt_to_phys answers for every byte address, in every state, is a  *)
(* translation that starts empty and changes one whole page per turn of    *)
(* map_range or call of unmap_page, although tables are built out of pages *)
(* with old contents and shared between pages (page_table.cpp:39-167).     *)
ImplementsAddressSpace == AS!ASSpec

(* Pages that are tables: the root, and what the entries of levels 2 and 1 *)
(* point to, each reached through one entry only.                          *)
Links(tables) == {l \in tables \X Index : pte_valid(mem[l[1]][l[2]])}
Below(tables) == {pte_to_pa(mem[l[1]][l[2]]) : l \in Links(tables)}
Level(n) ==
  LET l2 == {g_kernel_page_table} \ {nullptr}
      l1 == Below(l2)
  IN IF n = 2 THEN l2 ELSE IF n = 1 THEN l1 ELSE Below(l1)

(* No page is lost or has two uses: those that were free when boot started *)
(* are free or a table of exactly one place in the tree, also when a walk  *)
(* runs out of pages half way down (page_table.cpp:52-73).                 *)
FramesAccounted ==
  /\ pool = free \cup Level(2) \cup Level(1) \cup Level(0)
  /\ Cardinality(pool) =
       Cardinality(free) + Cardinality(Level(2))
         + Cardinality(Links(Level(2))) + Cardinality(Links(Level(1)))

(* map_range answers true only when every byte of the range it was asked   *)
(* for translates to its own byte, the last partial page included, and     *)
(* stays so until it is unmapped, whatever calls succeed or fail           *)
(* afterwards (page_table.cpp:89-111).                                     *)
TrueMeansMapped ==
  \A c \in granted : \A b \in 0..(c.size - 1) :
    virt_to_phys(g_kernel_page_table, c.va + b) = c.pa + b

(* Table pages the three regions need: the root, one for each entry of the *)
(* root in use, one for each entry of those.                               *)
KernelBytes ==
  UNION {r.base..(r.base + r.size - 1) : r \in {kDram, kUart0, kClint}}
TablesNeeded ==
  1 + Cardinality({a \div (kPageSize * Fanout * Fanout) : a \in KernelBytes})
    + Cardinality({a \div (kPageSize * Fanout) : a \in KernelBytes})

(* kernel_address_space_init ignores what map_range answers, but with as   *)
(* many free pages as the regions need, from enable_sv39 on every byte of  *)
(* memory, UART and CLINT is mapped to itself, whatever is mapped and      *)
(* unmapped beside it (kernel_address_space.cpp:29-56, mmu.cpp:14-17).     *)
KernelStaysMapped ==
  (satp.mode = "Sv39" /\ Cardinality(pool) >= TablesNeeded) =>
    \A a \in KernelBytes : virt_to_phys(satp.ppn * kPageSize, a) = a
=============================================================================
