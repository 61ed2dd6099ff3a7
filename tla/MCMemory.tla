------------------------------ MODULE MCMemory ------------------------------
(***************************************************************************)
(* Pages of 2 bytes and words of 2 bits: of the two pages of a bitmap word *)
(* pmm_init frees one.  Half of the address space is DRAM; 13 tables are   *)
(* needed, and the kernel image leaves 15, 14, 12, 4 or no pages.          *)
(***************************************************************************)
EXTENDS Memory

R(b, s) == [base |-> b, size |-> s]

MCDram  == R(64, 64)
MCClint == R(2, 4)
MCUart0 == R(6, 1)
MCImages == {R(64, 1), R(64, 8), R(64, 16), R(64, 47), R(64, 64)}

MCGarbage == {[ppn |-> 0, flags |-> {}], [ppn |-> 39, flags |-> {"V"}]}

MCCallVAs == {0, 6, 16}
MCCallPAs == {18, 66}
MCCallSizes == {1, 3}

(* The allocator alone: memories aligned and not, without a whole page,    *)
(* and larger than the bitmap; ranges reserved before, across, inside and  *)
(* behind them, and one of no bytes.                                       *)
MCManaged == {R(8, 24), R(9, 24), R(9, 9), R(9, 2), R(61, 70)}

MCReserved ==
  {<<R(71, 50)>>} \cup
  {<<R(71, 50), r>> : r \in {R(6, 3), R(13, 1), R(17, 6), R(27, 20), R(20, 0)}}
=============================================================================
