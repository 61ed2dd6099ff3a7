-------------------------------- MODULE Page --------------------------------
(***************************************************************************)
(* kernel/mm/page.h: page arithmetic on uintptr_t.  Addresses wrap at      *)
(* 2^64; the width is a parameter.  kPageSize is a power of two that       *)
(* divides it, so clearing the low bits is subtracting the remainder.      *)
(***************************************************************************)
EXTENDS Naturals

CONSTANTS kPageSize,   \* bytes in a page (4096)
          AddrSpace    \* 2^64, the number of addresses

ASSUME PageAssumption ==
  /\ kPageSize \in Nat \ {0} /\ AddrSpace \in Nat \ {0}
  /\ AddrSpace % kPageSize = 0

Addr == 0..(AddrSpace - 1)

plus(a, b)  == (a + b) % AddrSpace
minus(a, b) == (a + AddrSpace - b) % AddrSpace

is_page_aligned(a) == a % kPageSize = 0
page_offset(a)     == a % kPageSize
align_down(a)      == a - (a % kPageSize)
align_up(a)        == align_down(plus(a, kPageSize - 1))
=============================================================================
