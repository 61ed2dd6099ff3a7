------------------------------- MODULE MCPmm -------------------------------
(* init_small_pmm of tests/mm/pmm_unit_tests.cpp, scaled to 16-byte pages:  *)
(* 16 pages, of which the first and the fourth are reserved.                *)
EXTENDS Pmm

R(b, s) == [base |-> b, size |-> s]

TestManaged  == {R(128, 256)}
TestReserved == {<<R(128, 16), R(177, 4), R(400, 16)>>}
=============================================================================
