------------------------------- MODULE MCTrap -------------------------------
(***************************************************************************)
(* System calls with good and bad arguments: a write, a write to a file    *)
(* that is not open, one of no buffer, a yield, an exit, an unknown one.   *)
(***************************************************************************)
EXTENDS Trap, TLC

Call(a0, a1, a2, a7) == [a0 |-> a0, a1 |-> a1, a2 |-> a2, a7 |-> a7]

MCArgs == {Call(1, 5, 3, 1), Call(7, 5, 3, 1), Call(2, 0, 3, 1),
           Call(0, 0, 0, 3), Call(9, 0, 0, 2), Call(1, 1, 1, 4)}
MCExitArgs == {Call(1, 5, 3, 1), Call(9, 0, 0, 2)}

(* kernel.cpp:17-18, task_manager.cpp:14, linker.ld:46 *)
MCStackSize == [k \in Tasks \cup {boot} |->
                  IF k = boot THEN 16384 ELSE IF k = idle THEN 256 ELSE 1024]

Symmetry == Permutations(Tasks \ {idle})
=============================================================================
