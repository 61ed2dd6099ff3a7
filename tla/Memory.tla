------------------------------- MODULE Memory -------------------------------
(***************************************************************************)
(* Memory as kmain sets it up: pmm_init over DRAM with the kernel image    *)
(* reserved (pmm_platform.cpp), then page tables in pages of the bitmap    *)
(* allocator, then paging; behind that other code allocates pages, writes  *)
(* what it likes into them and gives them back.  Pmm and PageTables are    *)
(* composed: what the tables call free is what the bitmap says is free.    *)
(* Before that the allocator may be used by itself, over any memory, as    *)
(* the unit tests use it.                                                  *)
(***************************************************************************)
EXTENDS Pmm, FiniteSetsExt

CONSTANTS
  Fanout, kDram, kUart0, kClint, Garbage, CallVAs, CallPAs, CallSizes,
  Images          \* the kernel images, from kernel_start to kernel_end

(* DRAM and the image end before the top of the address space (memmap.h).  *)
ASSUME MemoryAssumption == kDram \in PhysicalRange /\ Images \subseteq PhysicalRange

VARIABLES mem, g_kernel_page_table, satp, phase, todo, loop, granted,
          tables, others   \* history: pages the page tables and other code hold

tvars == <<mem, g_kernel_page_table, satp, phase, todo, loop, granted>>
mvars == <<vars, tvars, tables, others>>

DramPages == {pa \in kDram.base..(kDram.base + kDram.size - 1) : is_page_aligned(pa)}

P == INSTANCE PageTables WITH
       free <- FreePages, pool <- pool \ others, Pools <- {DramPages}

(* What the tables assume of the memory map (memmap.h), and that the image *)
(* is loaded into DRAM (scripts/linker.ld).                                *)
ASSUME LayoutAssumption ==
  /\ P!TableAssumption /\ P!CallAssumption /\ P!KernelAssumption
  /\ \A image \in Images : /\ kDram.base <= image.base
                           /\ image.base + image.size <= kDram.base + kDram.size

MemInit ==
  /\ Init
  /\ \E g \in Garbage : mem = [f \in DramPages |-> [i \in P!Index |-> g]]
  /\ g_kernel_page_table = P!nullptr /\ satp = [mode |-> "Bare", ppn |-> 0]
  /\ phase = "pmm" /\ todo = <<>> /\ loop = {} /\ granted = {}
  /\ tables = {} /\ others = {}

-----------------------------------------------------------------------------
AllocatorAlone ==
  /\ phase = "pmm" /\ Next
  /\ others' = owned'
  /\ UNCHANGED <<tvars, tables>>

PlatformPmmInit ==
  /\ phase = "pmm" /\ phase' = "root"
  /\ \E image \in Images : PmmInit(kDram, <<image>>)
  /\ others' = {}
  /\ UNCHANGED <<mem, g_kernel_page_table, satp, todo, loop, granted, tables>>

(* Calls of alloc_page that return these pages to the page tables. *)
Draw(pages) ==
  LET m == mark_used(used, g_free_pages, {pa_to_index(pa) : pa \in pages})
  IN /\ used' = m.bits /\ g_free_pages' = m.free
     /\ owned' = owned \cup pages /\ tables' = tables \cup pages
     /\ UNCHANGED <<g_managed_base, g_total_pages, config, pool, others>>

AllocRoot == Draw(IF FreePages = {} THEN {} ELSE {Min(FreePages)}) /\ P!AllocRoot

MapRegion == UNCHANGED <<vars, tables, others>> /\ P!MapRegion

MapTurn ==
  \E l \in loop :
    /\ Draw(FreePages \ P!map_page(g_kernel_page_table, l.cur_va, l.cur_pa, l.flags).avail)
    /\ P!MapTurn

EnablePaging == UNCHANGED <<vars, tables, others>> /\ P!enable_sv39

-----------------------------------------------------------------------------
(* Behind boot. *)

MapCall == \E va \in CallVAs, pa \in CallPAs, size \in CallSizes :
             UNCHANGED <<vars, tables, others>> /\ P!CallMapRange(va, pa, size)

UnmapCall == \E va \in CallVAs : UNCHANGED <<vars, tables, others>> /\ P!CallUnmap(va)

OtherAllocs ==
  /\ phase = "paging" /\ Alloc
  /\ others' = others \cup (owned' \ owned)
  /\ UNCHANGED <<tvars, tables>>

OtherFrees ==
  /\ phase = "paging"
  /\ \E pa \in others : Free(pa) /\ others' = others \ {pa}
  /\ UNCHANGED <<tvars, tables>>

OtherWrites ==
  /\ phase = "paging"
  /\ \E pa \in others, g \in Garbage : mem' = [mem EXCEPT ![pa] = [i \in P!Index |-> g]]
  /\ UNCHANGED <<vars, g_kernel_page_table, satp, phase, todo, loop, granted, tables, others>>

MemNext ==
  \/ AllocatorAlone
  \/ PlatformPmmInit \/ AllocRoot \/ MapRegion \/ MapTurn \/ EnablePaging
  \/ MapCall \/ UnmapCall
  \/ OtherAllocs \/ OtherFrees \/ OtherWrites

MemSpec == MemInit /\ [][MemNext]_mvars

-----------------------------------------------------------------------------
(* The allocator and the tables agree: a page that the bitmap has given    *)
(* away and nobody else holds is a table in exactly one place of the tree, *)
(* in DRAM and clear of the kernel image, so clearing it for a new table   *)
(* hurts nobody (page_table.cpp:28-36, pmm.cpp:102-110,                    *)
(* pmm_platform.cpp:8-22).                                                 *)
TablesAccounted ==
  /\ P!FramesAccounted
  /\ tables = P!Level(2) \cup P!Level(1) \cup P!Level(0)
  /\ \A pa \in tables : \A n \in DOMAIN config.reserved : ~Overlaps(pa, config.reserved[n])

(* With as many pages as the regions need left by pmm_init, from the       *)
(* moment paging is on, the hart finds the kernel image, every page table  *)
(* and both devices at their own addresses, whatever other code allocates, *)
(* writes and frees (kernel_address_space.cpp:29-56, mmu.cpp:13-17).       *)
KernelReachable ==
  (satp.mode = "Sv39" /\ Cardinality(pool) >= P!TablesNeeded) =>
    /\ \A n \in DOMAIN config.reserved : \A b \in 0..(config.reserved[n].size - 1) :
         P!virt_to_phys(satp.ppn * kPageSize, config.reserved[n].base + b)
           = config.reserved[n].base + b
    /\ \A pa \in P!KernelBytes \cup tables : P!virt_to_phys(satp.ppn * kPageSize, pa) = pa
=============================================================================
