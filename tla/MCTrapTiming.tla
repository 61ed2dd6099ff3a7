---------------------------- MODULE MCTrapTiming ----------------------------
(***************************************************************************)
(* The constants of MCTrap for the runs with time.                         *)
(***************************************************************************)
EXTENDS MCTrap, TrapTiming
=============================================================================
