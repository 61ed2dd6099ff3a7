----------------------------- MODULE TrapTiming -----------------------------
(***************************************************************************)
(* Trap with a bound on how long the hart takes for a step, and fairness:  *)
(* what must happen again and again, and under which assumption on time.   *)
(*                                                                         *)
(* on_interrupt prints before it arms the timer, so what the bound has to  *)
(* cover is the way from there to mret, and the first instruction behind   *)
(* it: some dozens of instructions, against the interval of a second that  *)
(* kmain asks for.                                                         *)
(***************************************************************************)
EXTENDS Trap

CONSTANT kStep    \* the most time between two steps of the hart

ASSUME TimingAssumption == kStep \in Nat \ {0} /\ kInterval > 2 * kStep

VARIABLE elapsed  \* time since the hart's last step, while the timer runs

rvars == <<vars, elapsed>>

RInit == Init /\ elapsed = 0

RStep == Step /\ elapsed' = 0

(* Idle's wfi waits for the interrupt, however long that takes. *)
Waiting == current = idle /\ InBody

RTime ==
  /\ Time
  /\ \/ Waiting /\ UNCHANGED elapsed
     \/ ~Waiting /\ elapsed < kStep /\ elapsed' = elapsed + 1

RNext == RStep \/ RTime

(* The hart never stops by itself, and neither does the clock. *)
LiveSpec == RInit /\ [][RNext]_rvars /\ WF_rvars(RStep) /\ WF_rvars(RTime)

-----------------------------------------------------------------------------
Ticking == pc.at = "trap_handle" /\ mcause = "timer"
Halted  == pc.at \in {"halt", "reset"}

(* Ticks recur (timer.cpp:18-24), unless a fatal exception stops the       *)
(* machine or an exit through an ecall leaves interrupts masked.           *)
TicksRecur == []<>(Ticking \/ Halted \/ masked)

(* Interrupts do not starve the code they interrupt: instructions outside  *)
(* traps are executed again and again, because on_interrupt moves mtimecmp *)
(* before it returns (timer.cpp:23).  It ends only where the machine halts *)
(* for good, or idle runs, which waits for interrupts and does no more.    *)
CodeProgresses == []<><<Instruction>>_rvars \/ <>[](Halted \/ current = idle)

(* What "能周期性进中断" asks of the timer: interrupts come periodically   *)
(* for as long as no fatal exception stops the machine.                    *)
PeriodicInterrupts == []<>(Ticking \/ Halted)
=============================================================================
