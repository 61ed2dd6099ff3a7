------------------------------- MODULE Timer -------------------------------
(***************************************************************************)
(* KernelTimer (kernel/time/timer.cpp) on the CLINT's two registers, with  *)
(* the time that passes between their accesses: mtime runs on while the    *)
(* handler prints, and between reading it and writing mtimecmp.  Trap has  *)
(* what the interrupt does to the code it interrupts; here is when it      *)
(* comes.                                                                  *)
(***************************************************************************)
EXTENDS Integers

CONSTANTS
  kInterval,      \* what kmain passes to init (10 000 000, a second)
  kLatency,       \* a due interrupt is handled, up to the new mtimecmp, within this
  Times           \* bound: the values of mtime covered, in one or more stretches

ASSUME TimerAssumption ==
  kInterval \in Nat \ {0} /\ kLatency \in Nat \ {0} /\ Times \subseteq Nat

VARIABLES
  mtime, mtimecmp,    \* the CLINT
  mie, mtie,          \* mstatus.MIE, mie.MTIE
  s_interval, s_ticks,
  pc,                 \* where init or the handler is, or "code" outside
  now,                \* the mtime that interrupt_after has read
  started             \* history: the time init set the first interval from

vars == <<mtime, mtimecmp, mie, mtie, s_interval, s_ticks, pc, now, started>>

(* The clock has run since power-on, and what mtimecmp holds after reset is *)
(* not known; s_ticks is cleared.                                          *)
Init ==
  /\ mtime \in Times /\ mtime - 1 \notin Times
  /\ mtimecmp \in mtime..(mtime + kInterval)
  /\ mie = FALSE /\ mtie = FALSE
  /\ s_interval = 0 /\ s_ticks = 0
  /\ pc = "init" /\ now = 0 /\ started = 0

Goto(from, to) == pc = from /\ pc' = to

-----------------------------------------------------------------------------
read_mtime == now' = mtime

(* Mutant: the next interrupt is due an interval after the last one was. *)
interrupt_after_due(interval) == mtimecmp' = mtimecmp + interval

interrupt_after(interval) == mtimecmp' = now + interval

(* init: the first interval, then MTIE, then MIE. *)
InitRead ==
  /\ Goto("init", "init_write")
  /\ s_interval' = kInterval
  /\ read_mtime /\ started' = mtime
  /\ UNCHANGED <<mtime, mtimecmp, mie, mtie, s_ticks>>

(* Mutant: interrupts are enabled before the interval is set. *)
InitWriteLate ==
  /\ Goto("init_write", "init_mie")
  /\ mtie' = TRUE
  /\ UNCHANGED <<mtime, mtimecmp, mie, s_interval, s_ticks, now, started>>

InitWrite ==
  /\ Goto("init_write", "init_mtie")
  /\ interrupt_after(s_interval)
  /\ UNCHANGED <<mtime, mie, mtie, s_interval, s_ticks, now, started>>

InitMtie ==
  /\ Goto("init_mtie", "init_mie") /\ mtie' = TRUE
  /\ UNCHANGED <<mtime, mtimecmp, mie, s_interval, s_ticks, now, started>>

InitMie ==
  /\ Goto("init_mie", "code") /\ mie' = TRUE
  /\ UNCHANGED <<mtime, mtimecmp, mtie, s_interval, s_ticks, now, started>>

-----------------------------------------------------------------------------
Pending == mtime >= mtimecmp /\ mtie /\ mie

Interrupt ==
  /\ Pending /\ Goto("code", "count") /\ mie' = FALSE
  /\ UNCHANGED <<mtime, mtimecmp, mtie, s_interval, s_ticks, now, started>>

(* Mutant: the tick is not counted. *)
counted(ticks) == ticks

tick(ticks) == ticks + 1

(* on_interrupt: count, print for a while, read mtime, write mtimecmp. *)
Count ==
  /\ Goto("count", "print")
  /\ s_ticks' = tick(s_ticks)
  /\ UNCHANGED <<mtime, mtimecmp, mie, mtie, s_interval, now, started>>

ReadAgain ==
  /\ Goto("print", "write") /\ read_mtime
  /\ UNCHANGED <<mtime, mtimecmp, mie, mtie, s_interval, s_ticks, started>>

WriteAgain ==
  /\ Goto("write", "trap_exit")
  /\ interrupt_after(s_interval)
  /\ UNCHANGED <<mtime, mie, mtie, s_interval, s_ticks, now, started>>

(* Another trap keeps interrupts masked for a while. *)
OtherTrap ==
  /\ mie /\ ~Pending /\ Goto("code", "trap_exit") /\ mie' = FALSE
  /\ UNCHANGED <<mtime, mtimecmp, mtie, s_interval, s_ticks, now, started>>

Mret ==
  /\ Goto("trap_exit", "code") /\ mie' = TRUE
  /\ UNCHANGED <<mtime, mtimecmp, mtie, s_interval, s_ticks, now, started>>

Hart ==
  \/ InitRead \/ InitWrite \/ InitMtie \/ InitMie
  \/ Interrupt \/ Count \/ ReadAgain \/ WriteAgain
  \/ OtherTrap \/ Mret

(* What the latency assumes of the hart: from the due time, or from init's *)
(* read of mtime, it gets to the next write of mtimecmp.                   *)
Deadline == (IF pc = "init_write" THEN now ELSE mtimecmp) + kLatency

Clock ==
  /\ mtime + 1 \in Times
  /\ pc # "init" => mtime < Deadline
  /\ mtime' = mtime + 1
  /\ UNCHANGED <<mtimecmp, mie, mtie, s_interval, s_ticks, pc, now, started>>

(* The bound is reached. *)
End == mtime + 1 \notin Times /\ UNCHANGED vars

Next == Hart \/ Clock \/ End

Spec == Init /\ [][Next]_vars

-----------------------------------------------------------------------------
Elapsed == mtime - started

(* Ticks do not run ahead of the clock, from the first one on, whatever    *)
(* mtimecmp held before init and however long handlers take                *)
(* (timer.cpp:9-24, and the comment at timer.cpp:13).                      *)
NeverEarly == s_ticks * kInterval <= Elapsed

(* They do not fall behind by more than the latency each: the handler adds *)
(* its own time to every period, but loses no tick (timer.cpp:18-24).      *)
DriftBounded ==
  pc # "init" => Elapsed <= (s_ticks + 1) * (kInterval + kLatency)

(* A tick that was late does not make the next one come sooner: a whole    *)
(* interval lies between the handler's look at the clock and the next      *)
(* interrupt, so code runs in between even when handlers take longer than  *)
(* the interval (clint_timer.h:19-21, timer.cpp:23).                       *)
NoCatchingUp == pc = "count" => mtime >= now + kInterval

(* What the three rest on.  A period begins when mtime is read: by init, or *)
(* by the handler of the tick before.                                      *)
Types ==
  /\ {mtime, mtimecmp, s_ticks, now, started} \subseteq Nat
  /\ s_interval = IF pc = "init" THEN 0 ELSE kInterval
  /\ pc \in {"init", "init_write", "init_mtie", "init_mie", "code", "count",
             "print", "write", "trap_exit"}

Armed == pc \in {"init_mtie", "init_mie", "code", "count", "trap_exit"}

(* Not before now, the due time of the tick that is being counted lies an  *)
(* interval behind the last look at the clock.                             *)
Periods ==
  /\ pc = "init" => s_ticks = 0 /\ started = 0
  /\ pc = "init_write" => s_ticks = 0 /\ now = started
  /\ now <= mtime
  /\ Armed => mtimecmp = now + kInterval
  /\ pc = "count" => mtime >= mtimecmp
  /\ pc = "print" => s_ticks > 0 /\ mtimecmp = now + kInterval /\ mtime >= mtimecmp
  /\ pc = "write" => s_ticks > 0 /\ now >= mtimecmp

(* The last look at the clock came after as many intervals as there had    *)
(* been ticks, and as many latencies at most.                              *)
Looks ==
  /\ Armed \/ pc = "write" =>
       /\ now - started >= s_ticks * kInterval
       /\ now - started <= s_ticks * (kInterval + kLatency)
  /\ pc = "print" =>
       /\ now - started >= (s_ticks - 1) * kInterval
       /\ now - started <= (s_ticks - 1) * (kInterval + kLatency)

(* The clock has not passed the deadline. *)
InTime == pc # "init" => mtime <= Deadline

(* The inductive invariant. *)
IInv == Types /\ Periods /\ Looks /\ InTime
=============================================================================
