-------------------------------- MODULE Hart --------------------------------
(***************************************************************************)
(* The hart as the code of tasks sees it: instructions take effect one     *)
(* after the other, an ecall is one instruction that returns a value, and  *)
(* there are no interrupts.  Task bodies are arbitrary loops of kBody      *)
(* instructions; context_switch is executed instruction by instruction     *)
(* (its twelve s registers as one).  Which task comes next is left open    *)
(* between the runnable ones: TaskSched has the queue.                     *)
(***************************************************************************)
EXTENDS Integers, Sequences

CONSTANTS
  Tasks, idle,    \* the kernel's tasks, one of which is the idle task
  boot,           \* kmain's thread of execution and its boot_ctx
  kBody,          \* instructions in the loop of a task's body
  Val,            \* values task code puts into registers
  Args            \* the registers a0, a1, a2, a7 it sets up for an ecall

ASSUME HartAssumption ==
  /\ idle \in Tasks /\ boot \notin Tasks
  /\ kBody \in Nat \ {0}

VARIABLES
  reg,            \* s stands for s0-s11, t for the registers not named
  pc,             \* a place in the code and an instruction there
  context,        \* Task::context
  live,           \* tasks that have not exited
  current         \* RunQueue::s_current

hvars == <<reg, pc, context, live, current>>

Loc(place, n) == [at |-> place, n |-> n]
InBody        == pc.at = "body"

(* The instruction behind one in a body. *)
Behind(l) == [l EXCEPT !.n = (@ + 1) % kBody]

(* Stack pointers: a thread's stack, and how many trap frames are on it. *)
Top(k) == <<k, 0>>

HInit ==
  /\ reg = [ra |-> Loc("boot", 0), sp |-> Top(boot), s |-> 0, t |-> 0,
            a0 |-> 0, a1 |-> 0, a2 |-> 0, a7 |-> 0]
  /\ pc = Loc("boot", 0)
  /\ context = [k \in Tasks \cup {boot} |->
                  [ra |-> Loc("trampoline", 0), sp |-> Top(k), s |-> 0]]
  /\ live = Tasks
  /\ current = boot

-----------------------------------------------------------------------------
(* A task computes, or sets up the registers of a call. *)
Work(r, v) ==
  /\ InBody
  /\ reg' = [reg EXCEPT ![r] = v]
  /\ pc' = Behind(pc)
  /\ UNCHANGED <<context, live, current>>

LoadArgs(c) ==
  /\ InBody
  /\ reg' = [reg EXCEPT !.a0 = c.a0, !.a1 = c.a1, !.a2 = c.a2, !.a7 = c.a7]
  /\ pc' = Behind(pc)
  /\ UNCHANGED <<context, live, current>>

(* Who reschedule may switch to. *)
Successor(to) ==
  LET others == live \ {current, idle}
  IN to \in others \/ (others = {} /\ to = idle)

(* reschedule's call of context_switch. *)
CallSwitch(from, to, ra) ==
  /\ reg' = [reg EXCEPT !.ra = ra, !.a0 = from, !.a1 = to]
  /\ pc' = Loc("context_switch", 0)

Start(to) ==
  /\ pc = Loc("boot", 2)
  /\ Successor(to)
  /\ current' = to
  /\ CallSwitch(boot, to, Loc("halt", 0))
  /\ UNCHANGED <<context, live>>

Yield(to) ==
  /\ InBody /\ current # idle
  /\ Successor(to)
  /\ current' = to
  /\ CallSwitch(current, to, Behind(pc))
  /\ UNCHANGED <<context, live>>

(* sys_exit, up to its context_switch, from a call or from an ecall. *)
sys_exit(to) ==
  /\ Successor(to)
  /\ live' = live \ {current}
  /\ current' = to
  /\ CallSwitch(current, to, Loc("wfi_loop", 0))
  /\ UNCHANGED context

Exit(to) == InBody /\ current # idle /\ sys_exit(to)

(* Mutant: the s registers are loaded from the task that is left. *)
loaded_from_a0(n) ==
  CASE n = 3 -> [reg EXCEPT !.ra = context[reg.a1].ra]
    [] n = 4 -> [reg EXCEPT !.sp = context[reg.a1].sp]
    [] n = 5 -> [reg EXCEPT !.s = context[reg.a0].s]

loaded(n) ==
  CASE n = 3 -> [reg EXCEPT !.ra = context[reg.a1].ra]
    [] n = 4 -> [reg EXCEPT !.sp = context[reg.a1].sp]
    [] n = 5 -> [reg EXCEPT !.s = context[reg.a1].s]

stored(n) ==
  CASE n = 0 -> [context EXCEPT ![reg.a0].ra = reg.ra]
    [] n = 1 -> [context EXCEPT ![reg.a0].sp = reg.sp]
    [] n = 2 -> [context EXCEPT ![reg.a0].s = reg.s]

(* One instruction of context_switch; the last is ret. *)
context_switch ==
  /\ pc.at = "context_switch"
  /\ IF pc.n = 6 THEN pc' = reg.ra ELSE pc' = [pc EXCEPT !.n = @ + 1]
  /\ context' = IF pc.n <= 2 THEN stored(pc.n) ELSE context
  /\ reg' = IF pc.n \in 3..5 THEN loaded(pc.n) ELSE reg
  /\ UNCHANGED <<live, current>>

(* The trampoline calls the entry function. *)
task_entry_trampoline ==
  /\ pc.at = "trampoline"
  /\ pc' = Loc("body", 0)
  /\ reg' = [reg EXCEPT !.ra = Loc("trampoline", 1)]
  /\ UNCHANGED <<context, live, current>>

-----------------------------------------------------------------------------
(* What the system calls answer.  Errors are negative, as uintptr_t. *)
kErrBadFd          == -1
kErrBadPtr         == -2
kErrUnknownSyscall == -38

sys_write(fd, buf, len) ==
  IF fd \notin {1, 2} THEN kErrBadFd ELSE IF buf = 0 THEN kErrBadPtr ELSE len

sys_yield == 0

(* Number::Exit is the call that does not return. *)
IsExit(r) == r.a7 = 2

dispatch(r) ==
  IF r.a7 = 1 THEN sys_write(r.a0, r.a1, r.a2)
  ELSE IF r.a7 = 3 THEN sys_yield ELSE kErrUnknownSyscall

(* Calls as a task means them: a0 holds the answer, all else is as before. *)
Syscall ==
  /\ InBody /\ ~IsExit(reg)
  /\ reg' = [reg EXCEPT !.a0 = dispatch(reg)]
  /\ pc' = Behind(pc)
  /\ UNCHANGED <<context, live, current>>

Nop == InBody /\ pc' = Behind(pc) /\ UNCHANGED <<reg, context, live, current>>

(* An exit through an ecall runs on the trap's stack and registers. *)
SyscallExit(to) ==
  /\ InBody /\ IsExit(reg)
  /\ Successor(to)
  /\ live' = live \ {current}
  /\ current' = to
  /\ reg'.a0 = current /\ reg'.a1 = to
  /\ pc' = Loc("context_switch", 0)
  /\ UNCHANGED context

Booting == pc.at = "boot" /\ pc.n < 2 /\ pc' = [pc EXCEPT !.n = @ + 1]
           /\ UNCHANGED <<reg, context, live, current>>

HNext ==
  \/ Booting
  \/ \E r \in {"s", "t"}, v \in Val : Work(r, v)
  \/ \E c \in Args : LoadArgs(c)
  \/ \E k \in Tasks : Start(k) \/ Yield(k) \/ Exit(k) \/ SyscallExit(k)
  \/ context_switch \/ task_entry_trampoline
  \/ Syscall \/ Nop

HSpec == HInit /\ [][HNext]_hvars
=============================================================================
