---------------------------- MODULE MCPageTables ----------------------------
(***************************************************************************)
(* Four entries per table and two bytes per page: 64 virtual pages.  The   *)
(* regions lie as in platform/qemu/memmap.h: CLINT and UART share a table  *)
(* low down, memory is elsewhere and fills two level-0 tables.  Five       *)
(* tables below the root are needed; the pools are too small, exact, and   *)
(* large enough for calls behind boot to build more and then run out.      *)
(***************************************************************************)
EXTENDS PageTables

MCDram  == [base |-> 32, size |-> 16]
MCClint == [base |-> 2, size |-> 4]
MCUart0 == [base |-> 6, size |-> 1]

Page(n) == 2 * n

MCPools ==
  {{}, {Page(n) : n \in 20..22}, {Page(n) : n \in 18..23}, {Page(n) : n \in 16..23}}

(* Old contents that look like a leaf, and like a link to another table. *)
MCGarbage ==
  {[ppn |-> 0, flags |-> {}],
   [ppn |-> 20, flags |-> {"V", "R"}],
   [ppn |-> 21, flags |-> {"V"}]}

(* The page below the CLINT in a table that exists, one behind memory that *)
(* needs a table, one that needs two, and addresses that are not aligned.  *)
MCCallVAs  == {Page(0), Page(24), Page(40), 81}
MCCallPAs  == {Page(9), Page(30), 61}
MCCallSizes == {0, 1, 3}
=============================================================================
