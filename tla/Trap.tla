-------------------------------- MODULE Trap --------------------------------
(***************************************************************************)
(* Traps and the machine timer: trap_entry.S, trap_handle, the system call *)
(* dispatch, KernelTimer and the CLINT, around the instructions of Hart.   *)
(* An interrupt may come before every instruction, those of                *)
(* context_switch included.  The entry, the handler and the return are one *)
(* step each: they run with interrupts masked.                             *)
(*                                                                         *)
(* The timer is the time left until mtime reaches mtimecmp (0: reached);   *)
(* it is 64 bits wide and does not wrap within 58000 years at 10 MHz.      *)
(***************************************************************************)
EXTENDS Hart

CONSTANTS
  kInterval,      \* what kmain passes to KernelTimer::init
  Installs,       \* whether kmain calls trap::init
  TF_SIZE,        \* bytes of a trap frame (288)
  StackSize       \* bytes of every thread's stack

ASSUME TrapAssumption ==
  /\ kInterval \in Nat /\ kInterval > 1 /\ Installs \in BOOLEAN
  /\ TF_SIZE \in Nat /\ StackSize \in [Tasks \cup {boot} -> Nat]

(* Every stack but idle's has room for a trap frame: 16 KiB for kmain, 1   *)
(* KiB for a task (linker.ld:46, kernel.cpp:17-18).                        *)
ASSUME StackAssumption ==
  \A k \in (Tasks \cup {boot}) \ {idle} : TF_SIZE <= StackSize[k]

VARIABLES
  mtvec, mepc, mcause,
  mie, mpie,      \* mstatus.MIE and MPIE
  mtie,           \* mie.MTIE
  left,           \* time until the timer interrupt is pending
  stack,          \* the trap frames on every thread's stack
  mine,           \* history: what each task last put into its s registers
  masked          \* history: a task has exited through an ecall

csrs  == <<mtvec, mepc, mcause, mie, mpie, mtie>>
tvars == <<csrs, left, stack, mine, masked>>
vars  == <<hvars, tvars>>

Init ==
  /\ HInit
  /\ mtvec = "reset" /\ mepc = Loc("boot", 0) /\ mcause = "none"
  /\ mie = FALSE /\ mpie = FALSE /\ mtie = FALSE
  /\ left \in 0..kInterval
  /\ stack = [k \in Tasks \cup {boot} |-> <<>>]
  /\ mine = [k \in Tasks |-> 0]
  /\ masked = FALSE

Pending == left = 0 /\ mtie /\ mie
InTrap  == pc.at \in {"trap_entry", "trap_handle", "trap_exit", "halt", "reset"}

-----------------------------------------------------------------------------
(* kmain *)

trap_init ==
  /\ pc = Loc("boot", 0) /\ pc' = Loc("boot", 1)
  /\ mtvec' = IF Installs THEN "trap_entry" ELSE mtvec
  /\ UNCHANGED <<reg, context, live, current, mepc, mcause, mie, mpie, mtie,
                 left, stack, mine, masked>>

(* Mutant: mtimecmp is moved twice as far. *)
interrupt_after_twice(interval) == left' = 2 * interval

(* mtimecmp = mtime + interval. *)
interrupt_after(interval) == left' = interval

(* Mutant: the timer's own interrupt is not enabled. *)
timer_init_without_mtie ==
  /\ pc = Loc("boot", 1) /\ pc' = Loc("boot", 2)
  /\ interrupt_after(kInterval)
  /\ mie' = TRUE
  /\ UNCHANGED <<reg, context, live, current, mtvec, mepc, mcause, mpie, mtie,
                 stack, mine, masked>>

timer_init ==
  /\ pc = Loc("boot", 1) /\ pc' = Loc("boot", 2)
  /\ interrupt_after(kInterval)
  /\ mtie' = TRUE /\ mie' = TRUE
  /\ UNCHANGED <<reg, context, live, current, mtvec, mepc, mcause, mpie,
                 stack, mine, masked>>

-----------------------------------------------------------------------------
(* Instructions outside traps *)

TaskWork(r, v) ==
  /\ ~Pending /\ Work(r, v)
  /\ mine' = IF r = "s" THEN [mine EXCEPT ![current] = v] ELSE mine
  /\ UNCHANGED <<csrs, left, stack, masked>>

TaskInstruction ==
  /\ ~Pending
  /\ \/ \E c \in Args : current # idle /\ LoadArgs(c)
     \/ \E k \in Tasks : Start(k)
     \/ \E k \in Tasks : Yield(k)
     \/ \E k \in Tasks : Exit(k)
     \/ context_switch
     \/ task_entry_trampoline
  /\ UNCHANGED tvars

(* What the hart does on a trap. *)
TakeTrap(cause) ==
  /\ mepc' = pc /\ mcause' = cause
  /\ mpie' = mie /\ mie' = FALSE
  /\ pc' = Loc(mtvec, 0)
  /\ UNCHANGED <<reg, context, live, current, mtvec, mtie, left, stack, mine, masked>>

TimerInterrupt == Pending /\ TakeTrap("timer")

(* An ecall, an ebreak, or an instruction that faults. *)
Exception(cause) ==
  /\ ~Pending /\ InBody /\ current # idle
  /\ TakeTrap(cause)

-----------------------------------------------------------------------------
(* trap_entry.S and trap_handle *)

Frame(sp) == stack[sp[1]][sp[2]]

(* Save the registers, mepc and mcause below sp. *)
trap_entry ==
  LET k == reg.sp[1]
      d == reg.sp[2]
  IN /\ pc.at = "trap_entry" /\ pc' = Loc("trap_handle", 0)
     /\ stack' = [stack EXCEPT ![k] =
          Append(SubSeq(@, 1, d), [reg |-> reg, mepc |-> mepc, mcause |-> mcause])]
     /\ reg' = [reg EXCEPT !.sp = <<k, d + 1>>]
     /\ UNCHANGED <<context, live, current, csrs, left, mine, masked>>

(* What a call in C leaves in the registers a callee need not keep. *)
Clobbered ==
  [reg EXCEPT !.ra = Loc("trap_exit", 0), !.t = -1, !.a0 = -1, !.a1 = -1,
              !.a2 = -1, !.a7 = -1]

Handling(cause) == pc.at = "trap_handle" /\ Frame(reg.sp).mcause = cause

(* The handler returns to trap_entry.S with its frame changed to f. *)
Resume(f) ==
  /\ stack' = [stack EXCEPT ![reg.sp[1]][reg.sp[2]] = f]
  /\ reg' = Clobbered
  /\ pc' = Loc("trap_exit", 0)
  /\ UNCHANGED <<context, live, current, csrs, mine, masked>>

(* Mutant: the timer is not armed again. *)
on_interrupt_unarmed == left' = left

on_interrupt == interrupt_after(kInterval)

(* Mutant: the tick switches tasks inside the trap. *)
HandleTimerPreempting ==
  /\ Handling("timer")
  /\ on_interrupt
  /\ IF current \in {boot, idle} THEN Resume(Frame(reg.sp))
     ELSE \E to \in Tasks :
            /\ Successor(to)
            /\ current' = to
            /\ CallSwitch(current, to, Loc("trap_exit", 0))
            /\ UNCHANGED <<context, live, csrs, stack, mine, masked>>

HandleTimer ==
  /\ Handling("timer")
  /\ on_interrupt
  /\ Resume(Frame(reg.sp))

handle_breakpoint(f) == [f EXCEPT !.mepc = Behind(@)]

HandleBreakpoint ==
  /\ Handling("ebreak")
  /\ Resume(handle_breakpoint(Frame(reg.sp)))
  /\ UNCHANGED left

handle_ecall_mmode(f) == [f EXCEPT !.reg.a0 = dispatch(f.reg), !.mepc = Behind(@)]

HandleEcall ==
  /\ Handling("ecall") /\ ~IsExit(Frame(reg.sp).reg)
  /\ Resume(handle_ecall_mmode(Frame(reg.sp)))
  /\ UNCHANGED left

(* sys_exit switches away inside the trap; this one never returns. *)
HandleExit(to) ==
  /\ Handling("ecall") /\ IsExit(Frame(reg.sp).reg)
  /\ sys_exit(to)
  /\ masked' = TRUE
  /\ UNCHANGED <<csrs, left, stack, mine>>

(* Everything else is fatal: wfi with interrupts masked. *)
HandleFatal ==
  /\ Handling("fault")
  /\ pc' = Loc("halt", 0)
  /\ UNCHANGED <<reg, context, live, current, tvars>>

(* Mutant: a1 is not loaded from the frame. *)
RestoredWithoutA1(f) ==
  [f.reg EXCEPT !.sp = <<reg.sp[1], reg.sp[2] - 1>>, !.a1 = reg.a1]

(* The registers after the loads; sp moves up by the frame. *)
Restored(f) == [f.reg EXCEPT !.sp = <<reg.sp[1], reg.sp[2] - 1>>]

(* Mutant: sp is left below the frame. *)
trap_exit_leaking ==
  /\ pc.at = "trap_exit"
  /\ LET f == Frame(reg.sp)
     IN /\ reg' = [f.reg EXCEPT !.sp = reg.sp]
        /\ mepc' = f.mepc /\ pc' = f.mepc
  /\ mie' = mpie /\ mpie' = TRUE
  /\ UNCHANGED <<context, live, current, mtvec, mcause, mtie, left, stack, mine, masked>>

(* Load the registers and mepc, and mret. *)
trap_exit ==
  /\ pc.at = "trap_exit"
  /\ LET f == Frame(reg.sp)
     IN /\ reg' = Restored(f)
        /\ mepc' = f.mepc /\ pc' = f.mepc
  /\ stack' = [stack EXCEPT ![reg.sp[1]] = SubSeq(@, 1, reg.sp[2] - 1)]
  /\ mie' = mpie /\ mpie' = TRUE
  /\ UNCHANGED <<context, live, current, mtvec, mcause, mtie, left, mine, masked>>

-----------------------------------------------------------------------------
(* Time passes, in front of any step of the hart. *)
Time ==
  /\ left > 0
  /\ left' = left - 1
  /\ UNCHANGED <<hvars, csrs, stack, mine, masked>>

(* The hart executes an instruction outside traps. *)
Instruction ==
  \/ trap_init \/ timer_init
  \/ \E r \in {"s", "t"}, v \in Val : TaskWork(r, v)
  \/ TaskInstruction
  \/ \E cause \in {"ecall", "ebreak", "fault"} : Exception(cause)

Step ==
  \/ Instruction
  \/ TimerInterrupt
  \/ trap_entry
  \/ HandleTimer \/ HandleBreakpoint \/ HandleEcall \/ HandleFatal
  \/ \E k \in Tasks : HandleExit(k)
  \/ trap_exit

Next == Step \/ Time

Spec == Init /\ [][Next]_vars

-----------------------------------------------------------------------------
Places == {"boot", "context_switch", "trampoline", "body", "wfi_loop", "trap_entry",
           "trap_handle", "trap_exit", "halt", "reset"}
Locs   == [at : Places, n : Nat]

(* Types of the control registers, the timer and the frames. *)
TypeOK ==
  /\ pc \in Locs /\ mepc \in Locs
  /\ mtvec \in {"reset", "trap_entry"}
  /\ mcause \in {"none", "timer", "ecall", "ebreak", "fault"}
  /\ {mie, mpie, mtie, masked} \subseteq BOOLEAN
  /\ left \in 0..kInterval
  /\ reg.sp[1] \in Tasks \cup {boot}
  /\ DOMAIN stack = Tasks \cup {boot}
  /\ live \subseteq Tasks /\ current \in Tasks \cup {boot}

(* Traps cannot be seen from task code: whatever interrupts come, before   *)
(* whatever instruction (also inside context_switch), every thread's       *)
(* registers and program counter take the values they take on a hart       *)
(* without interrupts on which ecall is a single instruction that changes  *)
(* a0 and ebreak does nothing (trap_entry.S:45-131, trap_logic.h:52-64).   *)
Visible ==
  IF pc.at \in {"trap_entry", "reset"} THEN [reg |-> reg, pc |-> mepc]
  ELSE IF InTrap
  THEN [reg |-> Frame(reg.sp).reg, pc |-> Frame(reg.sp).mepc]
  ELSE [reg |-> reg, pc |-> pc]
H == INSTANCE Hart WITH reg <- Visible.reg, pc <- Visible.pc
TrapsInvisible == H!HSpec

(* A task that runs its own code finds its stack and the values it left in *)
(* the saved registers, through every switch and every trap in the middle  *)
(* of a switch (switch.S:20-56, trap_entry.S:45-131).                      *)
SavedRegistersSurvive ==
  InBody => /\ reg.sp = Top(current)
            /\ reg.s = mine[current]
            /\ current \in live

(* Code outside traps runs with interrupts enabled from the start of the   *)
(* timer to the first exit of a task through an ecall, in every task and   *)
(* inside every switch, and from then on with interrupts disabled for      *)
(* good: mstatus is not part of a context (switch.S), trap_entry.S saves   *)
(* but does not restore it, and mret gives back what the trap found.       *)
InterruptsOn == ~InTrap => (mie <=> mtie /\ ~masked)

(* However often and wherever traps come, and whichever stack a switch is   *)
(* about to leave, the frames on a stack never need more than it has: each *)
(* is taken off again.  Idle's stack is left out: its 256 bytes are less   *)
(* than one frame (trap_entry.S:43-46, kernel.cpp:17-18,                   *)
(* task_manager.cpp:14).                                                   *)
FramesFit ==
  \A k \in (Tasks \cup {boot}) \ {idle} : Len(stack[k]) * TF_SIZE <= StackSize[k]

(* What the list of things in place says, "mtvec 安装", and what kmain     *)
(* prints: when interrupts are enabled, the trap vector is installed.      *)
VectorInstalled == mie => mtvec = "trap_entry"
=============================================================================
