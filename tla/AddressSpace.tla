---------------------------- MODULE AddressSpace ----------------------------
(***************************************************************************)
(* What a page table promises (kernel/arch/riscv/mm/page_table.h): a       *)
(* translation of virtual addresses that changes one whole page at a time, *)
(* and never replaces a translation that is there.                         *)
(***************************************************************************)
EXTENDS Page

CONSTANT VAddr          \* the virtual addresses that can be translated

VARIABLE translation    \* byte address -> byte address, 0 where unmapped

PageOf(va) == va..(va + kPageSize - 1)

OnlyPage(va) == \A a \in VAddr \ PageOf(va) : translation'[a] = translation[a]

ASInit == translation = [a \in VAddr |-> 0]

Map(va) ==
  /\ translation[va] = 0
  /\ translation'[va] # 0 /\ is_page_aligned(translation'[va])
  /\ \A a \in PageOf(va) : /\ translation[a] = 0
                           /\ translation'[a] = translation'[va] + (a - va)
  /\ OnlyPage(va)

Unmap(va) ==
  /\ translation[va] # 0 /\ translation'[va] = 0
  /\ \A a \in PageOf(va) : translation'[a] = 0
  /\ OnlyPage(va)

ASNext == \E va \in {a \in VAddr : is_page_aligned(a)} : Map(va) \/ Unmap(va)

ASSpec == ASInit /\ [][ASNext]_translation
=============================================================================
