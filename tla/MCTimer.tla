------------------------------ MODULE MCTimer ------------------------------
(***************************************************************************)
(* The clock from its start, and where its number is 8 bits wide and as    *)
(* long as it gets.                                                        *)
(***************************************************************************)
EXTENDS Timer, UartNumber

MCTimes == 0..32 \cup 223..255

(* The two numbers that the handler and kmain print, the clock and the     *)
(* ticks, come out as digits that denote them, from zero to the widest one *)
(* the buffer must hold (uart.cpp:63-93, timer.cpp:20-21).                 *)
PrintsItsValue == \A v \in {mtime, s_ticks} : Prints(v)
=============================================================================
