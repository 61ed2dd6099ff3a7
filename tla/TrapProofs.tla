----------------------------- MODULE TrapProofs -----------------------------
(***************************************************************************)
(* Traps cannot be seen from task code, for any set of tasks, any code and *)
(* an interrupt before any instruction.                                    *)
(***************************************************************************)
EXTENDS Trap, TLAPS

Threads == Tasks \cup {boot}
Causes  == {"none", "timer", "ecall", "ebreak", "fault"}

(* What a register that is no address can hold. *)
Word == UNION {Int, Threads, Val, UNION {{c.a0, c.a1, c.a2, c.a7} : c \in Args}}

RegFile  == [ra : Locs, sp : Threads \X Nat, s : Word, t : Word,
             a0 : Word, a1 : Word, a2 : Word, a7 : Word]
Saved    == [ra : Locs, sp : Threads \X Nat, s : Word]
FrameSet == [reg : RegFile, mepc : Locs, mcause : Causes]

Types ==
  /\ reg \in RegFile /\ context \in [Threads -> Saved]
  /\ stack \in [Threads -> Seq(FrameSet)]
  /\ mine \in [Tasks -> Word]
  /\ live \in SUBSET Tasks /\ current \in Threads
  /\ pc \in Locs /\ mepc \in Locs
  /\ mtvec \in {"reset", "trap_entry"} /\ mcause \in Causes
  /\ mie \in BOOLEAN /\ mpie \in BOOLEAN /\ mtie \in BOOLEAN /\ masked \in BOOLEAN
  /\ left \in 0..kInterval

-----------------------------------------------------------------------------
(* A thread as its own code sees it, with registers r and at place p.      *)

(* Where a context can return to. *)
Returns(l) == (l.at = "trampoline" /\ l.n = 0) \/ l.at = "body"

(* The context of a task that waits for the hart leads into its code, on   *)
(* its stack, with its saved registers.                                    *)
Waits(k) ==
  Returns(context[k].ra) /\ context[k].sp = Top(k) /\ context[k].s = mine[k]

OnCpu(r) ==
  /\ current \in live /\ r.sp = Top(current) /\ r.s = mine[current]
  /\ \A k \in live \ {current} : Waits(k)

(* The thread that is left has saved some of its registers, and the next   *)
(* one has loaded some of its own.                                         *)
Switching(r, n) ==
  /\ n \in 0..6 /\ r.a1 = current /\ r.a0 \in Threads \ {current}
  /\ current \in live
  /\ \A k \in live \ {r.a0} : Waits(k)
  /\ r.a0 \in live =>
       /\ Returns(IF n = 0 THEN r.ra ELSE context[r.a0].ra)
       /\ (IF n <= 1 THEN r.sp ELSE context[r.a0].sp) = Top(r.a0)
       /\ (IF n <= 2 THEN r.s ELSE context[r.a0].s) = mine[r.a0]
  /\ n >= 4 => r.ra = context[current].ra
  /\ r.sp = IF n >= 5 THEN Top(current) ELSE <<r.a0, IF masked THEN r.sp[2] ELSE 0>>
  /\ n <= 4 => r.sp[2] \in {0, 1}
  /\ n = 6 => r.s = mine[current]

Running(r, p) ==
  \/ /\ p.at = "boot" /\ p.n \in 0..2
     /\ current = boot /\ live = Tasks /\ r.sp = Top(boot)
     /\ \A k \in Tasks : Waits(k)
  \/ Returns(p) /\ OnCpu(r)
  \/ p.at = "context_switch" /\ Switching(r, p.n)

-----------------------------------------------------------------------------
(* The trap around it. *)

Entering == pc.at \in {"trap_entry", "reset"}
Framed   == pc.at \in {"trap_handle", "trap_exit", "halt"}

(* Why the trap was taken: an interrupt anywhere, or an exception in the   *)
(* body of a task.                                                         *)
CauseFits(cause, l) ==
  /\ cause # "none"
  /\ cause # "timer" \/ masked => l.at = "body"
  /\ cause # "timer" => current # idle

OneFrame ==
  /\ \A k \in Threads : Len(stack[k]) <= 1
  /\ Entering => reg.sp[2] = 0 /\ CauseFits(mcause, mepc)
  /\ Framed => /\ reg.sp[2] = 1 /\ Len(stack[reg.sp[1]]) = 1
               /\ Frame(reg.sp).reg.sp = <<reg.sp[1], 0>>
               /\ CauseFits(Frame(reg.sp).mcause, Frame(reg.sp).mepc)

(* mstatus: interrupts are off in a trap and restored by its return. *)
Masking ==
  /\ InTrap => mtie /\ ~mie /\ (mpie <=> ~masked)
  /\ ~InTrap => (mie <=> mtie /\ ~masked)
  /\ mtie <=> ~(Visible.pc.at = "boot" /\ Visible.pc.n < 2)
  /\ masked => mtie

(* The inductive invariant. *)
IInv ==
  /\ Types
  /\ idle \in live
  /\ Running(Visible.reg, Visible.pc)
  /\ OneFrame /\ Masking

-----------------------------------------------------------------------------
CodePlaces == {"boot", "context_switch", "trampoline", "body"}

(* In which registers and at which place a thread finds itself. *)
LEMMA VisibleIs ==
  /\ Entering => Visible.reg = reg /\ Visible.pc = mepc
  /\ Framed => Visible.reg = Frame(reg.sp).reg /\ Visible.pc = Frame(reg.sp).mepc
  /\ ~Entering /\ ~Framed => Visible.reg = reg /\ Visible.pc = pc
  /\ InTrap <=> Entering \/ Framed
  /\ pc.at \in CodePlaces => ~InTrap
BY DEF Entering, Framed, Visible, InTrap, CodePlaces

LEMMA VisibleNext ==
  /\ Entering' => Visible'.reg = reg' /\ Visible'.pc = mepc'
  /\ Framed' => Visible'.reg = Frame(reg.sp)'.reg /\ Visible'.pc = Frame(reg.sp)'.mepc
  /\ ~Entering' /\ ~Framed' => Visible'.reg = reg' /\ Visible'.pc = pc'
  /\ InTrap' <=> Entering' \/ Framed'
  /\ pc'.at \in CodePlaces => ~InTrap'
BY DEF Entering, Framed, Visible, InTrap, CodePlaces

(* Outside traps, a thread sees the registers themselves. *)
LEMMA InCode ==
  ASSUME IInv, ~InTrap
  PROVE  Running(reg, pc) /\ Visible.reg = reg /\ Visible.pc = pc /\ pc.at \in CodePlaces
<1>1. Visible.reg = reg /\ Visible.pc = pc
  BY VisibleIs
<1>2. Running(reg, pc)
  BY <1>1 DEF IInv
<1> QED BY <1>1, <1>2 DEF Running, Returns, CodePlaces

(* An instruction outside traps keeps the state of the trap machinery. *)
LEMMA CodeStep ==
  ASSUME IInv, pc.at \in CodePlaces, pc'.at \in CodePlaces,
         UNCHANGED <<csrs, stack, masked>>,
         pc.at = "boot" => pc.n = 2, pc'.at # "boot",
         Types', idle \in live', Running(reg, pc)'
  PROVE  IInv'
<1>1. ~InTrap /\ ~InTrap' /\ ~Entering' /\ ~Framed'
  BY DEF InTrap, CodePlaces, Entering, Framed
<1>2. Visible.pc = pc /\ Visible'.reg = reg' /\ Visible'.pc = pc'
  BY <1>1, VisibleIs, VisibleNext
<1>3. Running(Visible.reg, Visible.pc)'
  BY <1>2 DEF Running, OnCpu, Switching, Waits, Returns
<1>4. OneFrame'
  BY <1>1 DEF IInv, OneFrame
<1>5. Masking'
  BY <1>1, <1>2 DEF IInv, Masking, csrs
<1> QED BY <1>3, <1>4, <1>5 DEF IInv

(* Words are numbers, the tasks that context_switch is called with, and    *)
(* what task code computes.                                                *)
LEMMA Words ==
  /\ Int \subseteq Word /\ Threads \subseteq Word /\ Val \subseteq Word
  /\ \A c \in Args : {c.a0, c.a1, c.a2, c.a7} \subseteq Word
BY DEF Word

LEMMA InitInv == Init => IInv
<1> SUFFICES ASSUME Init PROVE IInv
  OBVIOUS
<1>1. Types
  <2>1. 0 \in Word /\ boot \in Threads /\ Loc("boot", 0) \in Locs /\ Loc("trampoline", 0) \in Locs
    BY Words DEF Threads, Loc, Locs, Places
  <2>2. \A k \in Threads : Top(k) \in Threads \X Nat
    BY DEF Top
  <2>3. reg \in RegFile
    BY <2>1, <2>2 DEF Init, HInit, RegFile
  <2>4. context \in [Threads -> Saved]
    BY <2>1, <2>2 DEF Init, HInit, Saved, Threads
  <2>5. stack \in [Threads -> Seq(FrameSet)]
    BY DEF Init, Threads
  <2>6. mine \in [Tasks -> Word]
    BY <2>1 DEF Init
  <2>7. mie \in BOOLEAN /\ mpie \in BOOLEAN /\ mtie \in BOOLEAN /\ masked \in BOOLEAN
    BY DEF Init
  <2> QED BY <2>1, <2>3, <2>4, <2>5, <2>6, <2>7 DEF Init, HInit, Types, Causes
<1>2. ~Entering /\ ~Framed /\ Visible.reg = reg /\ Visible.pc = pc /\ ~InTrap
  BY VisibleIs DEF Init, HInit, Loc, Entering, Framed, CodePlaces
<1>3. Running(Visible.reg, Visible.pc)
  BY <1>2 DEF Init, HInit, Running, Waits, Returns, Loc, Top
<1>4. OneFrame
  BY <1>2 DEF Init, OneFrame, Threads
<1>5. Masking
  BY <1>2 DEF Init, HInit, Masking, Loc
<1>6. idle \in live
  BY HartAssumption DEF Init, HInit
<1> QED BY <1>1, <1>3, <1>4, <1>5, <1>6 DEF IInv

-----------------------------------------------------------------------------
(* Instructions outside traps *)

LEMMA BootKeepsInv ==
  ASSUME IInv, trap_init \/ timer_init
  PROVE  IInv'
<1>1. /\ pc.at = "boot" /\ pc.n \in {0, 1} /\ pc'.at = "boot" /\ pc'.n = pc.n + 1
      /\ UNCHANGED <<reg, context, live, current, stack, mine, masked>>
  BY DEF trap_init, timer_init, Loc
<1>2. ~InTrap /\ ~InTrap' /\ ~Entering' /\ ~Framed'
  BY <1>1, VisibleIs, VisibleNext DEF CodePlaces
<1>3. Visible.pc = pc /\ Visible.reg = reg /\ Visible'.reg = reg' /\ Visible'.pc = pc'
  BY <1>2, VisibleIs, VisibleNext
<1>4. Types'
  <2>1. pc' \in Locs
    BY DEF trap_init, timer_init, Loc, Locs, Places
  <2>2. mtvec' \in {"reset", "trap_entry"} /\ left' \in 0..kInterval
    BY TrapAssumption DEF IInv, Types, trap_init, timer_init, interrupt_after
  <2>3. mie' \in BOOLEAN /\ mtie' \in BOOLEAN
    BY DEF IInv, Types, trap_init, timer_init
  <2>4. UNCHANGED <<mepc, mcause, mpie>>
    BY DEF trap_init, timer_init
  <2> QED BY <1>1, <2>1, <2>2, <2>3, <2>4 DEF IInv, Types
<1>5. Running(Visible.reg, Visible.pc)'
  BY <1>1, <1>3 DEF IInv, Running, Returns, Waits
<1>6. OneFrame'
  BY <1>1, <1>2 DEF IInv, OneFrame
<1>7. Masking'
  <2>1. ~mtie /\ ~masked
    BY <1>1, <1>2, <1>3 DEF IInv, Masking
  <2>2. CASE trap_init
    BY <1>1, <1>2, <1>3, <2>1, <2>2 DEF IInv, Masking, trap_init, Loc
  <2>3. CASE timer_init
    BY <1>1, <1>2, <1>3, <2>1, <2>3 DEF IInv, Masking, timer_init, Loc
  <2> QED BY <2>2, <2>3
<1> QED BY <1>1, <1>4, <1>5, <1>6, <1>7 DEF IInv

(* The instruction behind one in a body is in the body. *)
LEMMA BehindInBody ==
  ASSUME NEW l \in Locs, l.at = "body"
  PROVE  Behind(l) \in Locs /\ Behind(l).at = "body"
BY HartAssumption DEF Behind, Locs, Places

(* An instruction in a task's body that leaves sp alone, and the saved     *)
(* registers as the history says.                                          *)
LEMMA BodyStep ==
  ASSUME IInv, InBody, pc' = Behind(pc), UNCHANGED <<context, live, current, csrs, left, stack, masked>>,
         reg' \in RegFile, mine' \in [Tasks -> Word],
         reg'.sp = reg.sp, reg'.s = mine'[current],
         \A k \in Tasks \ {current} : mine'[k] = mine[k]
  PROVE  IInv'
<1>1. pc.at = "body" /\ pc.at \in CodePlaces
  BY DEF InBody, CodePlaces
<1>2. pc' \in Locs /\ pc'.at = "body" /\ pc'.at \in CodePlaces
  BY <1>1, BehindInBody DEF IInv, Types, CodePlaces
<1>3. Types' /\ idle \in live'
  BY <1>2 DEF IInv, Types, csrs
<1>4. Running(reg, pc)
  BY <1>1, InCode, VisibleIs
<1>5. Running(reg, pc)'
  BY <1>1, <1>2, <1>4 DEF IInv, Types, Running, Returns, OnCpu, Waits
<1> QED BY <1>1, <1>2, <1>3, <1>5, CodeStep

LEMMA WorkKeepsInv ==
  ASSUME IInv, NEW r \in {"s", "t"}, NEW v \in Val, TaskWork(r, v)
  PROVE  IInv'
<1>1. /\ InBody /\ pc' = Behind(pc) /\ reg' = [reg EXCEPT ![r] = v]
      /\ UNCHANGED <<context, live, current, csrs, left, stack, masked>>
      /\ mine' = IF r = "s" THEN [mine EXCEPT ![current] = v] ELSE mine
  BY DEF TaskWork, Work
<1>2. /\ v \in Word /\ reg \in RegFile /\ mine \in [Tasks -> Word]
      /\ current \in Tasks /\ reg.s = mine[current]
  <2>1. Running(reg, pc) /\ pc.at = "body"
    BY <1>1, InCode, VisibleIs DEF InBody, CodePlaces
  <2> QED BY <2>1, Words DEF IInv, Types, Running, OnCpu
<1>3. CASE r = "s"
  <2>1. reg' \in RegFile /\ reg'.sp = reg.sp /\ reg'.s = v
    BY <1>1, <1>2, <1>3 DEF RegFile
  <2> QED BY <1>1, <1>2, <1>3, <2>1, BodyStep
<1>4. CASE r = "t"
  <2>1. reg' \in RegFile /\ reg'.sp = reg.sp /\ reg'.s = reg.s
    BY <1>1, <1>2, <1>4 DEF RegFile
  <2> QED BY <1>1, <1>2, <1>4, <2>1, BodyStep
<1> QED BY <1>3, <1>4

LEMMA ArgsKeepInv ==
  ASSUME IInv, NEW c \in Args, LoadArgs(c), UNCHANGED tvars
  PROVE  IInv'
<1>1. /\ InBody /\ pc' = Behind(pc)
      /\ reg' = [reg EXCEPT !.a0 = c.a0, !.a1 = c.a1, !.a2 = c.a2, !.a7 = c.a7]
      /\ UNCHANGED <<context, live, current, csrs, left, stack, mine, masked>>
  BY DEF LoadArgs, tvars
<1>2. /\ reg \in RegFile /\ mine \in [Tasks -> Word]
      /\ current \in Tasks /\ reg.s = mine[current]
  <2>1. Running(reg, pc) /\ pc.at = "body"
    BY <1>1, InCode, VisibleIs DEF InBody, CodePlaces
  <2> QED BY <2>1 DEF IInv, Types, Running, OnCpu
<1>3. c.a0 \in Word /\ c.a1 \in Word /\ c.a2 \in Word /\ c.a7 \in Word
  BY Words
<1>4. reg' \in RegFile /\ reg'.sp = reg.sp /\ reg'.s = reg.s
  BY <1>1, <1>2, <1>3 DEF RegFile
<1> QED BY <1>1, <1>2, <1>4, BodyStep

(* A successor is alive and another task. *)
LEMMA SuccessorFacts ==
  ASSUME Types, idle \in live, current # idle, NEW to, Successor(to)
  PROVE  to \in live /\ to \in Tasks /\ to # current
BY DEF Successor, Types

(* A call of context_switch, by kmain, by a task that yields or exits, or   *)
(* by one that exits in a trap.                                             *)
LEMMA CallStep ==
  ASSUME Types, idle \in live, current # idle,
         NEW to, Successor(to), current' = to,
         NEW ra \in Locs, CallSwitch(current, to, ra),
         UNCHANGED <<context, mine, stack, left, csrs>>,
         \A k \in live \ {current} : Waits(k),
         live' \subseteq live, live \ {current} \subseteq live',
         masked' \in BOOLEAN,
         current \in live' => Returns(ra) /\ reg.sp = Top(current) /\ reg.s = mine[current],
         reg.sp = Top(current) \/ (masked' /\ reg.sp = <<current, 1>>)
  PROVE  /\ Types' /\ idle \in live' /\ Running(reg, pc)'
         /\ pc'.at = "context_switch" /\ pc'.at \in CodePlaces
<1>1. to \in live /\ to \in Tasks /\ to # current /\ current \in Threads /\ to \in Threads
  BY SuccessorFacts DEF Types, Threads
<1>2. pc' = Loc("context_switch", 0) /\ pc' \in Locs /\ pc'.at = "context_switch" /\ pc'.n = 0
  BY DEF CallSwitch, Loc, Locs, Places
<1>3. /\ reg' \in RegFile /\ reg'.ra = ra /\ reg'.a0 = current /\ reg'.a1 = to
      /\ reg'.sp = reg.sp /\ reg'.s = reg.s
  <2>1. current \in Word /\ to \in Word
    BY <1>1, Words
  <2> QED BY <2>1 DEF CallSwitch, Types, RegFile
<1>4. Types'
  BY <1>1, <1>2, <1>3 DEF Types, csrs
<1>5. idle \in live' /\ to \in live'
  BY <1>1
<1>6. Switching(reg, 0)'
  <2>1. \A k \in live' \ {current} : Waits(k)'
    BY DEF Waits
  <2>2. reg'.sp = <<current, IF masked' THEN reg'.sp[2] ELSE 0>> /\ reg'.sp[2] \in {0, 1}
    BY <1>3 DEF Top
  <2> QED BY <1>1, <1>3, <1>5, <2>1, <2>2 DEF Switching, Waits
<1>7. Running(reg, pc)'
  BY <1>2, <1>6 DEF Running, Switching, Waits
<1> QED BY <1>2, <1>4, <1>5, <1>7 DEF CodePlaces

LEMMA StartKeepsInv ==
  ASSUME IInv, NEW to \in Tasks, Start(to), UNCHANGED tvars
  PROVE  IInv'
<1>1. pc.at = "boot" /\ pc.n = 2 /\ pc.at \in CodePlaces
  BY DEF Start, Loc, CodePlaces
<1>2. Running(reg, pc)
  BY <1>1, InCode, VisibleIs
<1>3. current = boot /\ reg.sp = Top(boot) /\ live = Tasks /\ \A k \in Tasks : Waits(k)
  BY <1>1, <1>2 DEF Running, Returns
<1>4. boot # idle /\ boot \notin Tasks /\ Loc("halt", 0) \in Locs
  BY HartAssumption DEF Loc, Locs, Places
<1>5. /\ CallSwitch(current, to, Loc("halt", 0)) /\ Successor(to) /\ current' = to
      /\ UNCHANGED <<context, live, mine, stack, left, csrs, masked>>
  BY <1>3 DEF Start, tvars
<1>6. Types /\ idle \in live /\ masked' \in BOOLEAN
  BY <1>5 DEF IInv, Types
<1>7. /\ Types' /\ idle \in live' /\ Running(reg, pc)'
      /\ pc'.at = "context_switch" /\ pc'.at \in CodePlaces
  BY <1>3, <1>4, <1>5, <1>6, CallStep
<1> QED BY <1>1, <1>5, <1>7, CodeStep

LEMMA YieldKeepsInv ==
  ASSUME IInv, NEW to \in Tasks, Yield(to) \/ Exit(to), UNCHANGED tvars
  PROVE  IInv'
<1>1. pc.at = "body" /\ pc.at \in CodePlaces /\ current # idle
  BY DEF Yield, Exit, InBody, CodePlaces
<1>2. Running(reg, pc)
  BY <1>1, InCode, VisibleIs
<1>3. OnCpu(reg)
  BY <1>1, <1>2 DEF Running
<1>4. Types /\ idle \in live /\ masked' \in BOOLEAN /\ pc \in Locs
  BY DEF IInv, Types, tvars
<1>5. /\ Behind(pc) \in Locs /\ Returns(Behind(pc)) /\ Loc("wfi_loop", 0) \in Locs
  BY <1>1, <1>4, BehindInBody DEF Returns, Loc, Locs, Places
<1>6. /\ Successor(to) /\ current' = to
      /\ UNCHANGED <<context, mine, stack, left, csrs, masked>>
  BY DEF Yield, Exit, sys_exit, tvars
<1>7. CASE Yield(to)
  <2>1. CallSwitch(current, to, Behind(pc)) /\ live' = live
    BY <1>7 DEF Yield
  <2>2. /\ Types' /\ idle \in live' /\ Running(reg, pc)'
        /\ pc'.at = "context_switch" /\ pc'.at \in CodePlaces
    BY <1>1, <1>3, <1>4, <1>5, <1>6, <2>1, CallStep DEF OnCpu
  <2> QED BY <1>1, <1>6, <2>2, CodeStep
<1>8. CASE Exit(to)
  <2>1. CallSwitch(current, to, Loc("wfi_loop", 0)) /\ live' = live \ {current}
    BY <1>8 DEF Exit, sys_exit
  <2>2. /\ Types' /\ idle \in live' /\ Running(reg, pc)'
        /\ pc'.at = "context_switch" /\ pc'.at \in CodePlaces
    BY <1>1, <1>3, <1>4, <1>5, <1>6, <2>1, CallStep DEF OnCpu
  <2> QED BY <1>1, <1>6, <2>2, CodeStep
<1> QED BY <1>7, <1>8

LEMMA TrampolineKeepsInv ==
  ASSUME IInv, task_entry_trampoline, UNCHANGED tvars
  PROVE  IInv'
<1>1. /\ pc.at = "trampoline" /\ pc.at \in CodePlaces
      /\ pc'.at = "body" /\ pc'.at \in CodePlaces /\ pc' \in Locs
      /\ Loc("trampoline", 1) \in Locs
  BY DEF task_entry_trampoline, Loc, CodePlaces, Locs, Places
<1>2. Running(reg, pc)
  BY <1>1, InCode, VisibleIs
<1>3. reg' \in RegFile /\ reg'.sp = reg.sp /\ reg'.s = reg.s
  BY <1>1 DEF IInv, Types, RegFile, task_entry_trampoline
<1>4. UNCHANGED <<context, live, current, csrs, left, stack, mine, masked>>
  BY DEF task_entry_trampoline, tvars
<1>5. Types' /\ idle \in live'
  BY <1>1, <1>3, <1>4 DEF IInv, Types, csrs
<1>6. Running(reg, pc)'
  BY <1>1, <1>2, <1>3, <1>4 DEF Running, Returns, OnCpu, Waits
<1> QED BY <1>1, <1>4, <1>5, <1>6, CodeStep

(* One instruction of context_switch: a store, a load, or the ret. *)
LEMMA SwitchKeepsInv ==
  ASSUME IInv, context_switch, UNCHANGED tvars
  PROVE  IInv'
<1>1. pc.at = "context_switch" /\ pc.at \in CodePlaces /\ pc \in Locs
  BY DEF context_switch, CodePlaces, IInv, Types
<1>2. Switching(reg, pc.n)
  <2>1. Running(reg, pc)
    BY <1>1, InCode, VisibleIs
  <2> QED BY <1>1, <2>1 DEF Running, Returns
<1>3. /\ pc.n \in 0..6 /\ reg.a0 \in Threads /\ reg.a1 = current /\ current \in Threads
      /\ current \in live /\ current \in Tasks /\ reg.a0 # current
  BY <1>2 DEF Switching, IInv, Types
<1>4. UNCHANGED <<live, current, csrs, left, stack, mine, masked>>
  BY DEF context_switch, tvars
<1>5. reg \in RegFile /\ context \in [Threads -> Saved]
  BY DEF IInv, Types
<1>6. ASSUME reg' \in RegFile, context' \in [Threads -> Saved], pc' \in Locs,
             pc'.at \in CodePlaces, pc'.at # "boot", Running(reg, pc)'
      PROVE  IInv'
  <2>1. Types' /\ idle \in live'
    BY <1>4, <1>6 DEF IInv, Types, csrs
  <2> QED BY <1>1, <1>4, <1>6, <2>1, CodeStep
<1>7. CASE pc.n \in 0..5
  <2>1. pc' \in Locs /\ pc'.at = "context_switch" /\ pc'.n = pc.n + 1 /\ pc'.at \in CodePlaces
    BY <1>1, <1>7 DEF context_switch, Locs, CodePlaces
  <2> SUFFICES /\ reg' \in RegFile /\ context' \in [Threads -> Saved]
               /\ Switching(reg, pc.n)'
    BY <1>6, <2>1 DEF Running, Switching, Waits
  <2>2. CASE pc.n = 0
    <3>1. context' = [context EXCEPT ![reg.a0].ra = reg.ra] /\ reg' = reg
      BY <2>2 DEF context_switch, stored
    <3>2. /\ context' \in [Threads -> Saved] /\ context'[reg.a0].ra = reg.ra
          /\ \A k \in Threads : k # reg.a0 => context'[k] = context[k]
      BY <1>3, <1>5, <3>1 DEF RegFile, Saved
    <3> QED BY <1>2, <1>3, <1>4, <1>5, <2>1, <2>2, <3>1, <3>2
         DEF Switching, Waits, IInv, Types, Threads
  <2>3. CASE pc.n = 1
    <3>1. context' = [context EXCEPT ![reg.a0].sp = reg.sp] /\ reg' = reg
      BY <2>3 DEF context_switch, stored
    <3>2. /\ context' \in [Threads -> Saved] /\ context'[reg.a0].sp = reg.sp
          /\ context'[reg.a0].ra = context[reg.a0].ra
          /\ \A k \in Threads : k # reg.a0 => context'[k] = context[k]
      BY <1>3, <1>5, <3>1 DEF RegFile, Saved
    <3> QED BY <1>2, <1>3, <1>4, <1>5, <2>1, <2>3, <3>1, <3>2
         DEF Switching, Waits, IInv, Types, Threads
  <2>4. CASE pc.n = 2
    <3>1. context' = [context EXCEPT ![reg.a0].s = reg.s] /\ reg' = reg
      BY <2>4 DEF context_switch, stored
    <3>2. /\ context' \in [Threads -> Saved] /\ context'[reg.a0].s = reg.s
          /\ context'[reg.a0].ra = context[reg.a0].ra
          /\ context'[reg.a0].sp = context[reg.a0].sp
          /\ \A k \in Threads : k # reg.a0 => context'[k] = context[k]
      BY <1>3, <1>5, <3>1 DEF RegFile, Saved
    <3> QED BY <1>2, <1>3, <1>4, <1>5, <2>1, <2>4, <3>1, <3>2
         DEF Switching, Waits, IInv, Types, Threads
  <2>5. context[current] \in Saved /\ Waits(current)
    BY <1>2, <1>3, <1>5 DEF Switching
  <2>6. CASE pc.n = 3
    <3>1. reg' = [reg EXCEPT !.ra = context[current].ra] /\ context' = context
      BY <1>3, <2>6 DEF context_switch, loaded
    <3>2. /\ reg' \in RegFile /\ reg'.ra = context[current].ra
          /\ reg'.sp = reg.sp /\ reg'.s = reg.s /\ reg'.a0 = reg.a0 /\ reg'.a1 = reg.a1
      BY <1>5, <2>5, <3>1 DEF RegFile, Saved
    <3> QED BY <1>2, <1>3, <1>4, <1>5, <2>1, <2>6, <3>1, <3>2 DEF Switching, Waits
  <2>7. CASE pc.n = 4
    <3>1. reg' = [reg EXCEPT !.sp = context[current].sp] /\ context' = context
      BY <1>3, <2>7 DEF context_switch, loaded
    <3>2. /\ reg' \in RegFile /\ reg'.sp = context[current].sp
          /\ reg'.ra = reg.ra /\ reg'.s = reg.s /\ reg'.a0 = reg.a0 /\ reg'.a1 = reg.a1
      BY <1>5, <2>5, <3>1 DEF RegFile, Saved
    <3> QED BY <1>2, <1>3, <1>4, <1>5, <2>1, <2>5, <2>7, <3>1, <3>2 DEF Switching, Waits
  <2>8. CASE pc.n = 5
    <3>1. reg' = [reg EXCEPT !.s = context[current].s] /\ context' = context
      BY <1>3, <2>8 DEF context_switch, loaded
    <3>2. /\ reg' \in RegFile /\ reg'.s = context[current].s
          /\ reg'.ra = reg.ra /\ reg'.sp = reg.sp /\ reg'.a0 = reg.a0 /\ reg'.a1 = reg.a1
      BY <1>5, <2>5, <3>1 DEF RegFile, Saved
    <3> QED BY <1>2, <1>3, <1>4, <1>5, <2>1, <2>5, <2>8, <3>1, <3>2 DEF Switching, Waits
  <2> QED BY <1>7, <2>2, <2>3, <2>4, <2>6, <2>7, <2>8
<1>8. CASE pc.n = 6
  <2>1. pc' = reg.ra /\ reg' = reg /\ context' = context
    BY <1>8 DEF context_switch
  <2>2. reg.ra = context[current].ra /\ Waits(current) /\ OnCpu(reg)
    <3>1. \A k \in live \ {current} : Waits(k)
      BY <1>2, <1>8 DEF Switching, Waits
    <3> QED BY <1>2, <1>3, <1>8, <3>1 DEF Switching, OnCpu
  <2>3. pc' \in Locs /\ Returns(pc') /\ pc'.at \in CodePlaces /\ pc'.at # "boot"
    BY <1>3, <1>5, <2>1, <2>2 DEF RegFile, Waits, Returns, CodePlaces
  <2>4. Running(reg, pc)'
    BY <1>4, <2>1, <2>2, <2>3 DEF Running, OnCpu, Waits, Returns
  <2> QED BY <1>5, <1>6, <2>1, <2>3, <2>4
<1> QED BY <1>3, <1>7, <1>8

-----------------------------------------------------------------------------
(* Traps *)

(* A thread runs on with the registers and at the place it was left.       *)
LEMMA RunsOn ==
  ASSUME NEW r, NEW p, Running(r, p), Visible'.reg = r, Visible'.pc = p,
         UNCHANGED <<context, live, current, mine, masked>>
  PROVE  Running(Visible.reg, Visible.pc)'
<1>1. \A k : Waits(k)' <=> Waits(k)
  BY DEF Waits, Returns
<1>2. OnCpu(Visible.reg)' <=> OnCpu(r)
  BY <1>1 DEF OnCpu
<1>3. \A n : Switching(Visible.reg, n)' <=> Switching(r, n)
  BY <1>1 DEF Switching, Returns
<1>4. Returns(Visible.pc)' <=> Returns(p)
  BY DEF Returns
<1> QED BY <1>1, <1>2, <1>3, <1>4 DEF Running

(* What a thread sees stays as it is, and so stays the invariant about it. *)
LEMMA UnseenKeepsRunning ==
  ASSUME IInv, Visible'.reg = Visible.reg, Visible'.pc = Visible.pc,
         UNCHANGED <<context, live, current, mine, masked>>
  PROVE  Running(Visible.reg, Visible.pc)'
BY RunsOn DEF IInv

(* Taking a trap changes nothing that the thread sees. *)
LEMMA TakeTrapKeepsInv ==
  ASSUME IInv, ~InTrap, NEW cause \in Causes, TakeTrap(cause),
         CauseFits(cause, pc), reg.sp[2] = 0, mtie
  PROVE  IInv' /\ Visible'.reg = Visible.reg /\ Visible'.pc = Visible.pc
<1>1. /\ mepc' = pc /\ mcause' = cause /\ mpie' = mie /\ mie' = FALSE
      /\ pc' = Loc(mtvec, 0)
      /\ UNCHANGED <<reg, context, live, current, mtvec, mtie, left, stack, mine, masked>>
  BY DEF TakeTrap
<1>2. Entering' /\ ~Framed' /\ InTrap' /\ pc' \in Locs
  BY <1>1 DEF IInv, Types, Entering, Framed, InTrap, Loc, Locs, Places
<1>3. /\ Visible.reg = reg /\ Visible.pc = pc /\ Visible'.reg = reg /\ Visible'.pc = pc
  BY <1>1, <1>2, VisibleIs, VisibleNext
<1>4. Types'
  BY <1>1, <1>2 DEF IInv, Types
<1>5. Running(Visible.reg, Visible.pc)'
  BY <1>1, <1>3, UnseenKeepsRunning
<1>6. OneFrame'
  BY <1>1, <1>2 DEF IInv, OneFrame, CauseFits
<1>7. Masking'
  BY <1>1, <1>2, <1>3 DEF IInv, Masking
<1> QED BY <1>1, <1>3, <1>4, <1>5, <1>6, <1>7 DEF IInv

LEMMA InterruptKeepsInv ==
  ASSUME IInv, TimerInterrupt
  PROVE  IInv' /\ Visible'.reg = Visible.reg /\ Visible'.pc = Visible.pc
<1>1. mie /\ mtie /\ TakeTrap("timer")
  BY DEF TimerInterrupt, Pending
<1>2. ~InTrap /\ ~masked
  BY <1>1 DEF IInv, Masking
<1>3. Running(reg, pc)
  BY <1>2, InCode
<1>4. reg.sp[2] = 0
  BY <1>2, <1>3 DEF Running, OnCpu, Switching, Top
<1>5. CauseFits("timer", pc) /\ "timer" \in Causes
  BY <1>2 DEF CauseFits, Causes
<1> QED BY <1>1, <1>2, <1>4, <1>5, TakeTrapKeepsInv

LEMMA ExceptionKeepsInv ==
  ASSUME IInv, NEW cause \in {"ecall", "ebreak", "fault"}, Exception(cause)
  PROVE  IInv' /\ Visible'.reg = Visible.reg /\ Visible'.pc = Visible.pc
<1>1. pc.at = "body" /\ current # idle /\ TakeTrap(cause)
  BY DEF Exception, InBody
<1>2. ~InTrap
  BY <1>1 DEF InTrap
<1>3. Running(reg, pc) /\ Visible.pc = pc
  BY <1>2, InCode
<1>4. reg.sp[2] = 0 /\ mtie
  BY <1>1, <1>3 DEF Running, OnCpu, Top, IInv, Masking
<1>5. CauseFits(cause, pc) /\ cause \in Causes
  BY <1>1 DEF CauseFits, Causes
<1> QED BY <1>1, <1>2, <1>4, <1>5, TakeTrapKeepsInv

(* trap_entry.S saves what the thread sees in a frame. *)
LEMMA EntryKeepsInv ==
  ASSUME IInv, trap_entry
  PROVE  IInv' /\ Visible'.reg = Visible.reg /\ Visible'.pc = Visible.pc
<1> DEFINE k == reg.sp[1]
           f == [reg |-> reg, mepc |-> mepc, mcause |-> mcause]
<1>1. /\ pc.at = "trap_entry" /\ pc' = Loc("trap_handle", 0)
      /\ stack' = [stack EXCEPT ![k] = Append(SubSeq(@, 1, reg.sp[2]), f)]
      /\ reg' = [reg EXCEPT !.sp = <<k, reg.sp[2] + 1>>]
      /\ UNCHANGED <<context, live, current, mtvec, mepc, mcause, mie, mpie, mtie, left, mine, masked>>
  BY DEF trap_entry, csrs
<1>2. /\ Entering /\ InTrap /\ ~Framed /\ Framed' /\ InTrap' /\ ~Entering' /\ pc' \in Locs
  BY <1>1 DEF Entering, Framed, InTrap, Loc, Locs, Places
<1>3. reg.sp[2] = 0 /\ CauseFits(mcause, mepc)
  BY <1>2 DEF IInv, OneFrame
<1>4. /\ reg \in RegFile /\ k \in Threads /\ f \in FrameSet /\ reg.sp = <<k, 0>>
      /\ stack \in [Threads -> Seq(FrameSet)]
  <2>1. reg \in RegFile /\ stack \in [Threads -> Seq(FrameSet)] /\ mepc \in Locs /\ mcause \in Causes
    BY DEF IInv, Types
  <2>2. reg.sp \in Threads \X Nat
    BY <2>1 DEF RegFile
  <2>3. k \in Threads /\ reg.sp = <<k, 0>>
    BY <1>3, <2>2
  <2>4. f \in FrameSet
    BY <2>1 DEF FrameSet
  <2> QED BY <2>1, <2>3, <2>4
<1>5. reg' \in RegFile /\ reg'.sp = <<k, 1>>
  <2>1. <<k, reg.sp[2] + 1>> = <<k, 1>> /\ <<k, 1>> \in Threads \X Nat
    BY <1>3, <1>4
  <2> HIDE DEF k
  <2> QED BY <1>1, <1>4, <2>1 DEF RegFile
<1>6. SubSeq(stack[k], 1, 0) = <<>> /\ Append(<<>>, f) = <<f>> /\ <<f>> \in Seq(FrameSet)
  BY <1>4
<1>7. /\ stack'[k] = <<f>> /\ \A j \in Threads : j # k => stack'[j] = stack[j]
      /\ stack' \in [Threads -> Seq(FrameSet)]
  BY <1>1, <1>3, <1>4, <1>6
<1>8. Frame(reg.sp)' = f
  BY <1>5, <1>7 DEF Frame
<1>9. /\ Visible.reg = reg /\ Visible.pc = mepc /\ Visible'.reg = reg /\ Visible'.pc = mepc
  BY <1>2, <1>8, VisibleIs, VisibleNext
<1>10. Types'
  BY <1>1, <1>2, <1>5, <1>7 DEF IInv, Types
<1>11. Running(Visible.reg, Visible.pc)'
  BY <1>1, <1>9, UnseenKeepsRunning
<1>12. OneFrame'
  <2>1. \A j \in Threads : Len(stack'[j]) <= 1
    <3>1. \A j \in Threads : Len(stack[j]) <= 1
      BY DEF IInv, OneFrame
    <3>2. Len(<<f>>) = 1
      OBVIOUS
    <3> HIDE DEF k, f
    <3>3. ASSUME NEW j \in Threads PROVE Len(stack'[j]) <= 1
      <4>1. CASE j = k
        <5>1. stack'[j] = <<f>>
          BY <1>7, <4>1, Zenon
        <5> QED BY <3>2, <5>1
      <4>2. CASE j # k
        BY <1>7, <3>1, <4>2, Zenon
      <4> QED BY <4>1, <4>2
    <3> QED BY <3>3
  <2>2. f.reg.sp = <<k, 0>> /\ f.mcause = mcause /\ f.mepc = mepc
    BY <1>4
  <2> HIDE DEF k, f
  <2>3. reg'.sp[1] = k /\ reg'.sp[2] = 1 /\ Len(stack'[k]) = 1
    BY <1>5, <1>7
  <2>4. Frame(reg.sp)'.mcause = mcause /\ Frame(reg.sp)'.mepc = mepc
    BY <1>8, <2>2
  <2>5. CauseFits(Frame(reg.sp).mcause, Frame(reg.sp).mepc)'
    BY <1>1, <1>3, <2>4 DEF CauseFits
  <2>6. Frame(reg.sp)'.reg.sp = <<reg'.sp[1], 0>>
    BY <1>8, <2>2, <2>3
  <2> QED BY <1>2, <2>1, <2>3, <2>5, <2>6 DEF OneFrame
<1>13. Masking'
  BY <1>1, <1>2, <1>9 DEF IInv, Masking
<1> QED BY <1>1, <1>9, <1>10, <1>11, <1>12, <1>13 DEF IInv

(* What holds of the frame in a trap. *)
LEMMA FrameFacts ==
  ASSUME IInv, Framed
  PROVE  /\ reg.sp[1] \in Threads /\ reg.sp = <<reg.sp[1], 1>>
         /\ stack[reg.sp[1]] = <<Frame(reg.sp)>> /\ Frame(reg.sp) \in FrameSet
         /\ Frame(reg.sp).reg.sp = <<reg.sp[1], 0>>
         /\ Visible.reg = Frame(reg.sp).reg /\ Visible.pc = Frame(reg.sp).mepc
         /\ CauseFits(Frame(reg.sp).mcause, Frame(reg.sp).mepc)
<1>1. reg.sp[1] \in Threads /\ reg.sp = <<reg.sp[1], 1>> /\ Len(stack[reg.sp[1]]) = 1
  BY DEF IInv, Types, RegFile, OneFrame
<1>2. stack[reg.sp[1]] \in Seq(FrameSet) /\ Frame(reg.sp) = stack[reg.sp[1]][1]
  BY <1>1 DEF IInv, Types, Frame
<1>3. stack[reg.sp[1]] = <<Frame(reg.sp)>> /\ Frame(reg.sp) \in FrameSet
  BY <1>1, <1>2
<1> QED BY <1>1, <1>3, VisibleIs DEF IInv, OneFrame

(* A handler that returns has changed the frame, and so what the thread    *)
(* will find, and nothing else.                                            *)
LEMMA ResumeKeepsInv ==
  ASSUME IInv, pc.at = "trap_handle", NEW g \in FrameSet, Resume(g),
         left' \in 0..kInterval, g.reg.sp = Frame(reg.sp).reg.sp,
         CauseFits(g.mcause, g.mepc), Running(g.reg, g.mepc),
         g.mepc.at = "boot" => g.mepc = Frame(reg.sp).mepc,
         Frame(reg.sp).mepc.at = "boot" => g.mepc = Frame(reg.sp).mepc
  PROVE  IInv' /\ Visible'.reg = g.reg /\ Visible'.pc = g.mepc
<1> DEFINE k == reg.sp[1]
           f == Frame(reg.sp)
<1>1. Framed /\ InTrap /\ ~Entering
  BY DEF Framed, Entering, InTrap
<1>2. /\ k \in Threads /\ reg.sp[2] = 1 /\ reg.sp = <<k, 1>> /\ stack[k] = <<f>>
      /\ f \in FrameSet /\ f.reg.sp = <<k, 0>> /\ Visible.pc = f.mepc
  BY <1>1, FrameFacts
<1>3. /\ stack' = [stack EXCEPT ![k][1] = g] /\ reg' = Clobbered /\ pc' = Loc("trap_exit", 0)
      /\ UNCHANGED <<context, live, current, mtvec, mepc, mcause, mie, mpie, mtie, mine, masked>>
  BY <1>2 DEF Resume, csrs
<1>4. Framed' /\ InTrap' /\ ~Entering' /\ pc' \in Locs
  BY <1>3 DEF Framed, Entering, InTrap, Loc, Locs, Places
<1>5. reg' \in RegFile /\ reg'.sp = <<k, 1>> /\ reg'.sp[1] = k /\ reg'.sp[2] = 1
  <2>1. Loc("trap_exit", 0) \in Locs /\ -1 \in Word
    BY Words DEF Loc, Locs, Places
  <2>2. reg \in RegFile
    BY DEF IInv, Types
  <2>3. reg' \in RegFile /\ reg'.sp = reg.sp
    BY <1>3, <2>1, <2>2 DEF Clobbered, RegFile
  <2> QED BY <1>2, <2>3
<1>6. /\ stack'[k] = <<g>> /\ \A j \in Threads : j # k => stack'[j] = stack[j]
      /\ stack' \in [Threads -> Seq(FrameSet)]
  <2>1. stack \in [Threads -> Seq(FrameSet)]
    BY DEF IInv, Types
  <2>2. [<<f>> EXCEPT ![1] = g] = <<g>> /\ <<g>> \in Seq(FrameSet)
    OBVIOUS
  <2>3. stack' = [stack EXCEPT ![k] = [stack[k] EXCEPT ![1] = g]]
    <3> HIDE DEF k, f
    <3> QED BY <1>2, <1>3, <2>1
  <2>4. stack' = [stack EXCEPT ![k] = <<g>>]
    BY <1>2, <2>2, <2>3
  <2> HIDE DEF k, f
  <2> QED BY <1>2, <2>1, <2>2, <2>4
<1>7. Frame(reg.sp)' = g
  <2> HIDE DEF k, f
  <2> QED BY <1>5, <1>6 DEF Frame
<1>8. Visible'.reg = g.reg /\ Visible'.pc = g.mepc
  BY <1>4, <1>7, VisibleNext
<1>9. Types'
  BY <1>3, <1>4, <1>5, <1>6 DEF IInv, Types
<1>10. Running(Visible.reg, Visible.pc)'
  BY <1>3, <1>8, RunsOn
<1>11. OneFrame'
  <2> HIDE DEF k, f
  <2>0. Len(<<g>>) = 1
    OBVIOUS
  <2>1. \A j \in Threads : Len(stack'[j]) <= 1
    <3>1. \A j \in Threads : Len(stack[j]) <= 1
      BY DEF IInv, OneFrame
    <3>2. ASSUME NEW j \in Threads PROVE Len(stack'[j]) <= 1
      <4>1. CASE j = k
        <5>1. stack'[j] = <<g>>
          BY <1>6, <4>1
        <5>2. Len(stack'[j]) = 1
          BY <2>0, <5>1
        <5> QED BY <5>2
      <4>2. CASE j # k
        BY <1>6, <3>1, <4>2
      <4> QED BY <4>1, <4>2
    <3> QED BY <3>2
  <2>2. Frame(reg.sp)'.mcause = g.mcause /\ Frame(reg.sp)'.mepc = g.mepc
    BY <1>7
  <2>3. CauseFits(Frame(reg.sp).mcause, Frame(reg.sp).mepc)'
    BY <1>3, <2>2 DEF CauseFits
  <2>4. Frame(reg.sp)'.reg.sp = <<reg'.sp[1], 0>>
    BY <1>2, <1>5, <1>7 DEF f
  <2>5. Len(stack'[reg'.sp[1]]) = 1
    BY <1>5, <1>6, <2>0
  <2> QED BY <1>4, <1>5, <2>1, <2>3, <2>4, <2>5 DEF OneFrame
<1>12. Masking'
  BY <1>1, <1>2, <1>3, <1>4, <1>8 DEF IInv, Masking
<1> QED BY <1>3, <1>8, <1>9, <1>10, <1>11, <1>12 DEF IInv

LEMMA HandleTimerKeepsInv ==
  ASSUME IInv, HandleTimer
  PROVE  IInv' /\ Visible'.reg = Visible.reg /\ Visible'.pc = Visible.pc
<1>1. pc.at = "trap_handle" /\ Resume(Frame(reg.sp)) /\ left' = kInterval
  BY DEF HandleTimer, Handling, on_interrupt, interrupt_after
<1>2. Framed
  BY <1>1 DEF Framed
<1>3. left' \in 0..kInterval
  BY <1>1, TrapAssumption
<1>4. Running(Frame(reg.sp).reg, Frame(reg.sp).mepc)
  BY <1>2, VisibleIs DEF IInv
<1> QED BY <1>1, <1>2, <1>3, <1>4, FrameFacts, ResumeKeepsInv

(* An exception is handled on behalf of the running task. *)
LEMMA CallerFacts ==
  ASSUME IInv, Handling("ebreak") \/ Handling("ecall")
  PROVE  /\ Framed /\ pc.at = "trap_handle" /\ Frame(reg.sp) \in FrameSet
         /\ Visible.reg = Frame(reg.sp).reg /\ Visible.pc = Frame(reg.sp).mepc
         /\ Frame(reg.sp).mepc.at = "body" /\ OnCpu(Frame(reg.sp).reg)
         /\ reg.sp = <<current, 1>> /\ current # idle
<1>1. pc.at = "trap_handle" /\ Framed /\ Frame(reg.sp).mcause # "timer"
  BY DEF Handling, Framed
<1>2. Frame(reg.sp).mepc.at = "body" /\ current # idle
  BY <1>1, FrameFacts DEF CauseFits
<1>3. OnCpu(Frame(reg.sp).reg)
  <2>1. Running(Visible.reg, Visible.pc) /\ Visible.reg = Frame(reg.sp).reg /\ Visible.pc.at = "body"
    BY <1>1, <1>2, FrameFacts DEF IInv
  <2> QED BY <2>1 DEF Running, OnCpu, Waits, Returns
<1>4. reg.sp = <<current, 1>>
  BY <1>1, <1>3, FrameFacts DEF OnCpu, Top
<1> QED BY <1>1, <1>2, <1>3, <1>4, FrameFacts

LEMMA HandleBreakpointKeepsInv ==
  ASSUME IInv, HandleBreakpoint
  PROVE  /\ IInv' /\ Visible'.reg = Visible.reg /\ Visible'.pc = Behind(Visible.pc)
         /\ Visible.pc.at = "body"
<1> DEFINE f == Frame(reg.sp)
           g == handle_breakpoint(f)
<1>1. Handling("ebreak") /\ Resume(g) /\ left' = left
  BY DEF HandleBreakpoint
<1>2. /\ f \in FrameSet /\ f.mepc.at = "body" /\ OnCpu(f.reg) /\ pc.at = "trap_handle"
      /\ Visible.reg = f.reg /\ Visible.pc = f.mepc
      /\ CauseFits(f.mcause, f.mepc)
  BY <1>1, CallerFacts, FrameFacts
<1>3. Behind(f.mepc) \in Locs /\ Behind(f.mepc).at = "body"
  BY <1>2, BehindInBody DEF FrameSet
<1>4. g \in FrameSet /\ g.reg = f.reg /\ g.mcause = f.mcause /\ g.mepc = Behind(f.mepc)
  BY <1>2, <1>3 DEF handle_breakpoint, FrameSet
<1> HIDE DEF f, g
<1>5. Running(g.reg, g.mepc) /\ CauseFits(g.mcause, g.mepc)
  BY <1>2, <1>3, <1>4 DEF Running, Returns, CauseFits
<1>6. left' \in 0..kInterval
  BY <1>1 DEF IInv, Types
<1>7. IInv' /\ Visible'.reg = g.reg /\ Visible'.pc = g.mepc
  BY <1>1, <1>2, <1>3, <1>4, <1>5, <1>6, ResumeKeepsInv DEF f
<1> QED BY <1>2, <1>4, <1>7

(* What dispatch answers is a word. *)
LEMMA AnswerIsWord ==
  ASSUME NEW r \in RegFile
  PROVE  dispatch(r) \in Word
BY Words DEF dispatch, sys_write, sys_yield, kErrBadFd, kErrBadPtr, kErrUnknownSyscall, RegFile

LEMMA HandleEcallKeepsInv ==
  ASSUME IInv, HandleEcall
  PROVE  /\ IInv' /\ Visible'.reg = [Visible.reg EXCEPT !.a0 = dispatch(Visible.reg)]
         /\ Visible'.pc = Behind(Visible.pc)
         /\ Visible.pc.at = "body" /\ ~IsExit(Visible.reg)
<1> DEFINE f == Frame(reg.sp)
           g == handle_ecall_mmode(f)
<1>1. Handling("ecall") /\ Resume(g) /\ left' = left /\ ~IsExit(f.reg)
  BY DEF HandleEcall
<1>2. /\ f \in FrameSet /\ f.mepc.at = "body" /\ OnCpu(f.reg) /\ pc.at = "trap_handle"
      /\ Visible.reg = f.reg /\ Visible.pc = f.mepc
      /\ CauseFits(f.mcause, f.mepc)
  BY <1>1, CallerFacts, FrameFacts
<1>3. Behind(f.mepc) \in Locs /\ Behind(f.mepc).at = "body"
  BY <1>2, BehindInBody DEF FrameSet
<1>4. dispatch(f.reg) \in Word /\ f.reg \in RegFile
  BY <1>2, AnswerIsWord DEF FrameSet
<1>5. /\ g.reg = [f.reg EXCEPT !.a0 = dispatch(f.reg)]
      /\ g.mcause = f.mcause /\ g.mepc = Behind(f.mepc) /\ g \in FrameSet
  <2>1. [f.reg EXCEPT !.a0 = dispatch(f.reg)] \in RegFile
    BY <1>4 DEF RegFile
  <2>2. g = [f EXCEPT !.reg = [f.reg EXCEPT !.a0 = dispatch(f.reg)], !.mepc = Behind(f.mepc)]
    BY <1>2 DEF handle_ecall_mmode, FrameSet
  <2> HIDE DEF f, g
  <2> QED BY <1>2, <1>3, <2>1, <2>2 DEF FrameSet
<1> HIDE DEF f, g
<1>6. g.reg.sp = f.reg.sp /\ g.reg.s = f.reg.s
  BY <1>4, <1>5 DEF RegFile
<1>7. Running(g.reg, g.mepc) /\ CauseFits(g.mcause, g.mepc)
  BY <1>2, <1>3, <1>5, <1>6 DEF Running, Returns, CauseFits, OnCpu
<1>8. left' \in 0..kInterval
  BY <1>1 DEF IInv, Types
<1>9. IInv' /\ Visible'.reg = g.reg /\ Visible'.pc = g.mepc
  BY <1>1, <1>2, <1>3, <1>5, <1>6, <1>7, <1>8, ResumeKeepsInv DEF f
<1> QED BY <1>1, <1>2, <1>5, <1>9
(* sys_exit leaves the trap for another task, with interrupts still off. *)
LEMMA HandleExitKeepsInv ==
  ASSUME IInv, NEW to \in Tasks, HandleExit(to)
  PROVE  /\ IInv' /\ Visible'.reg = reg' /\ Visible'.pc = pc'
         /\ Visible.pc.at = "body" /\ IsExit(Visible.reg)
         /\ reg'.a0 = current /\ reg'.a1 = to
<1>1. /\ Handling("ecall") /\ IsExit(Frame(reg.sp).reg) /\ Successor(to) /\ masked' = TRUE
      /\ live' = live \ {current} /\ current' = to
      /\ CallSwitch(current, to, Loc("wfi_loop", 0))
      /\ UNCHANGED <<context, mine, stack, left, csrs>>
  BY DEF HandleExit, sys_exit
<1>2. /\ Framed /\ reg.sp = <<current, 1>> /\ current # idle /\ Visible.pc.at = "body"
      /\ Visible.reg = Frame(reg.sp).reg
      /\ \A k \in live \ {current} : Waits(k)
  BY <1>1, CallerFacts DEF OnCpu
<1>3. Types /\ idle \in live /\ Loc("wfi_loop", 0) \in Locs /\ masked' \in BOOLEAN
  BY <1>1 DEF IInv, Loc, Locs, Places
<1>4. /\ Types' /\ idle \in live' /\ Running(reg, pc)'
      /\ pc'.at = "context_switch" /\ pc'.at \in CodePlaces
  BY <1>1, <1>2, <1>3, CallStep
<1>5. ~InTrap' /\ ~Entering' /\ ~Framed'
  BY <1>4, VisibleNext
<1>6. Visible'.reg = reg' /\ Visible'.pc = pc'
  BY <1>5, VisibleNext
<1>7. Running(Visible.reg, Visible.pc)'
  BY <1>4, <1>6 DEF Running, OnCpu, Switching, Waits, Returns
<1>8. OneFrame'
  BY <1>1, <1>5 DEF IInv, OneFrame
<1>9. Masking'
  <2>1. InTrap
    BY <1>2, VisibleIs
  <2> QED BY <1>1, <1>4, <1>5, <1>6, <2>1 DEF IInv, Masking, csrs
<1>10. reg'.a0 = current /\ reg'.a1 = to
  BY <1>1, <1>3 DEF CallSwitch, Types, RegFile
<1> QED BY <1>1, <1>2, <1>4, <1>6, <1>7, <1>8, <1>9, <1>10 DEF IInv

LEMMA HandleFatalKeepsInv ==
  ASSUME IInv, HandleFatal
  PROVE  IInv' /\ Visible'.reg = Visible.reg /\ Visible'.pc = Visible.pc
<1>1. /\ pc.at = "trap_handle" /\ pc' = Loc("halt", 0)
      /\ UNCHANGED <<reg, context, live, current, mtvec, mepc, mcause, mie, mpie, mtie,
                     left, stack, mine, masked>>
  BY DEF HandleFatal, Handling, tvars, csrs
<1>2. Framed /\ InTrap /\ ~Entering /\ Framed' /\ InTrap' /\ ~Entering' /\ pc' \in Locs
  BY <1>1 DEF Framed, Entering, InTrap, Loc, Locs, Places
<1>3. Frame(reg.sp)' = Frame(reg.sp)
  BY <1>1 DEF Frame
<1>4. Visible'.reg = Visible.reg /\ Visible'.pc = Visible.pc
  BY <1>2, <1>3, VisibleIs, VisibleNext
<1>5. Types'
  BY <1>1, <1>2 DEF IInv, Types
<1>6. Running(Visible.reg, Visible.pc)'
  BY <1>1, <1>4, UnseenKeepsRunning
<1>7. OneFrame'
  BY <1>1, <1>2, <1>3 DEF IInv, OneFrame, CauseFits
<1>8. Masking'
  BY <1>1, <1>2, <1>4 DEF IInv, Masking
<1> QED BY <1>1, <1>4, <1>5, <1>6, <1>7, <1>8 DEF IInv

(* The return from a trap loads what the frame says. *)
LEMMA ExitKeepsInv ==
  ASSUME IInv, trap_exit
  PROVE  IInv' /\ Visible'.reg = Visible.reg /\ Visible'.pc = Visible.pc
<1> DEFINE k == reg.sp[1]
           f == Frame(reg.sp)
<1>1. /\ pc.at = "trap_exit" /\ reg' = Restored(f) /\ mepc' = f.mepc /\ pc' = f.mepc
      /\ stack' = [stack EXCEPT ![k] = SubSeq(@, 1, reg.sp[2] - 1)]
      /\ mie' = mpie /\ mpie' = TRUE
      /\ UNCHANGED <<context, live, current, mtvec, mcause, mtie, left, mine, masked>>
  BY DEF trap_exit
<1>2. Framed /\ InTrap
  BY <1>1 DEF Framed, InTrap
<1>3. /\ k \in Threads /\ reg.sp[2] = 1 /\ stack[k] = <<f>> /\ f \in FrameSet
      /\ f.reg.sp = <<k, 0>> /\ Visible.reg = f.reg /\ Visible.pc = f.mepc
  BY <1>2, FrameFacts
<1>4. f.reg \in RegFile /\ f.mepc \in Locs
  BY <1>3 DEF FrameSet
<1>5. reg' = f.reg
  <2>1. <<k, reg.sp[2] - 1>> = f.reg.sp
    BY <1>3
  <2>2. reg' = [f.reg EXCEPT !.sp = f.reg.sp]
    BY <1>1, <2>1 DEF Restored
  <2> HIDE DEF f
  <2> QED BY <1>4, <2>2 DEF RegFile
<1>6. /\ stack'[k] = <<>> /\ \A j \in Threads : j # k => stack'[j] = stack[j]
      /\ stack' \in [Threads -> Seq(FrameSet)]
  <2>1. stack \in [Threads -> Seq(FrameSet)]
    BY DEF IInv, Types
  <2>2. SubSeq(stack[k], 1, 0) = <<>> /\ <<>> \in Seq(FrameSet)
    BY <1>3, <2>1
  <2> HIDE DEF k, f
  <2>3. reg.sp[2] - 1 = 0
    BY <1>3
  <2>4. stack' = [stack EXCEPT ![k] = <<>>]
    BY <1>1, <1>3, <2>2, <2>3
  <2> QED BY <1>3, <2>1, <2>2, <2>4
<1> HIDE DEF k, f
<1>7. Running(f.reg, f.mepc)
  BY <1>3 DEF IInv
<1>8. pc'.at \in CodePlaces
  BY <1>1, <1>7 DEF Running, Returns, CodePlaces
<1>9. ~InTrap' /\ ~Entering' /\ ~Framed'
  BY <1>8, VisibleNext
<1>10. Visible'.reg = Visible.reg /\ Visible'.pc = Visible.pc
  BY <1>1, <1>3, <1>5, <1>9, VisibleNext
<1>11. Types'
  <2>1. mie' \in BOOLEAN /\ mpie' \in BOOLEAN
    BY <1>1 DEF IInv, Types
  <2> QED BY <1>1, <1>4, <1>5, <1>6, <2>1 DEF IInv, Types
<1>12. Running(Visible.reg, Visible.pc)'
  BY <1>1, <1>10, UnseenKeepsRunning
<1>13. OneFrame'
  BY <1>6, <1>9 DEF IInv, OneFrame
<1>14. Masking'
  BY <1>1, <1>2, <1>9, <1>10 DEF IInv, Masking
<1> QED BY <1>1, <1>10, <1>11, <1>12, <1>13, <1>14 DEF IInv

(* Only the clock moves. *)
LEMMA QuietKeepsInv ==
  ASSUME IInv, left' \in 0..kInterval,
         UNCHANGED <<reg, pc, context, live, current, mtvec, mepc, mcause, mie, mpie, mtie,
                     stack, mine, masked>>
  PROVE  IInv' /\ Visible'.reg = Visible.reg /\ Visible'.pc = Visible.pc
<1>1. /\ Frame(reg.sp)' = Frame(reg.sp) /\ (Entering' <=> Entering) /\ (Framed' <=> Framed)
      /\ (InTrap' <=> InTrap)
  BY DEF Frame, Entering, Framed, InTrap
<1>2. Visible'.reg = Visible.reg /\ Visible'.pc = Visible.pc
  BY <1>1, VisibleIs, VisibleNext
<1>3. Types'
  BY DEF IInv, Types
<1>4. Running(Visible.reg, Visible.pc)'
  BY <1>2, UnseenKeepsRunning
<1>5. OneFrame' /\ Masking'
  BY <1>1, <1>2 DEF IInv, OneFrame, CauseFits, Masking
<1> QED BY <1>2, <1>3, <1>4, <1>5 DEF IInv

LEMMA TimeKeepsInv ==
  ASSUME IInv, Time
  PROVE  IInv' /\ Visible'.reg = Visible.reg /\ Visible'.pc = Visible.pc
<1>1. left' \in 0..kInterval
  BY TrapAssumption DEF Time, IInv, Types
<1>2. UNCHANGED <<reg, pc, context, live, current, mtvec, mepc, mcause, mie, mpie, mtie,
                  stack, mine, masked>>
  BY DEF Time, hvars, csrs
<1> QED BY <1>1, <1>2, QuietKeepsInv

LEMMA NextKeepsInv ==
  ASSUME IInv, [Next]_vars
  PROVE  IInv'
<1>1. CASE UNCHANGED vars
  <2>1. UNCHANGED <<reg, pc, context, live, current, mtvec, mepc, mcause, mie, mpie, mtie,
                    left, stack, mine, masked>>
    BY <1>1 DEF vars, hvars, tvars, csrs
  <2>2. left' \in 0..kInterval
    BY <2>1 DEF IInv, Types
  <2> QED BY <2>1, <2>2, QuietKeepsInv
<1>2. CASE trap_init \/ timer_init
  BY <1>2, BootKeepsInv
<1>3. CASE \E r \in {"s", "t"}, v \in Val : TaskWork(r, v)
  BY <1>3, WorkKeepsInv
<1>4. CASE TaskInstruction
  <2>1. UNCHANGED tvars
    BY <1>4 DEF TaskInstruction
  <2>2. CASE \E c \in Args : current # idle /\ LoadArgs(c)
    BY <2>1, <2>2, ArgsKeepInv
  <2>3. CASE \E k \in Tasks : Start(k)
    BY <2>1, <2>3, StartKeepsInv
  <2>4. CASE \E k \in Tasks : Yield(k) \/ Exit(k)
    BY <2>1, <2>4, YieldKeepsInv
  <2>5. CASE context_switch
    BY <2>1, <2>5, SwitchKeepsInv
  <2>6. CASE task_entry_trampoline
    BY <2>1, <2>6, TrampolineKeepsInv
  <2> QED BY <1>4, <2>2, <2>3, <2>4, <2>5, <2>6 DEF TaskInstruction
<1>5. CASE TimerInterrupt
  BY <1>5, InterruptKeepsInv
<1>6. CASE \E cause \in {"ecall", "ebreak", "fault"} : Exception(cause)
  BY <1>6, ExceptionKeepsInv
<1>7. CASE trap_entry
  BY <1>7, EntryKeepsInv
<1>8. CASE HandleTimer \/ HandleBreakpoint \/ HandleEcall \/ HandleFatal
  BY <1>8, HandleTimerKeepsInv, HandleBreakpointKeepsInv, HandleEcallKeepsInv,
     HandleFatalKeepsInv
<1>9. CASE \E k \in Tasks : HandleExit(k)
  BY <1>9, HandleExitKeepsInv
<1>10. CASE trap_exit
  BY <1>10, ExitKeepsInv
<1>11. CASE Time
  BY <1>11, TimeKeepsInv
<1> QED BY <1>1, <1>2, <1>3, <1>4, <1>5, <1>6, <1>7, <1>8, <1>9, <1>10, <1>11
     DEF Next, Step, Instruction

LEMMA InvHolds == Spec => []IInv
BY InitInv, NextKeepsInv, PTL DEF Spec

-----------------------------------------------------------------------------
(* A task that runs its own code finds its stack pointer and its saved     *)
(* registers as it left them, whatever switches and traps came between.    *)
THEOREM RegistersSurvive == Spec => []SavedRegistersSurvive
<1>1. IInv => SavedRegistersSurvive
  <2> SUFFICES ASSUME IInv, pc.at = "body"
               PROVE  /\ reg.sp = Top(current) /\ reg.s = mine[current]
                      /\ current \in live
    BY DEF SavedRegistersSurvive, InBody
  <2>1. Running(reg, pc)
    BY InCode, VisibleIs DEF CodePlaces
  <2> QED BY <2>1 DEF Running, OnCpu
<1> QED BY <1>1, InvHolds, PTL

(* Code outside traps runs with interrupts enabled exactly from the start   *)
(* of the timer to the first exit through an ecall, whichever task runs     *)
(* and however often tasks are switched; behind that exit never again.      *)
THEOREM InterruptsStayOn == Spec => []InterruptsOn
<1>1. IInv => InterruptsOn
  BY DEF IInv, Masking, InterruptsOn
<1> QED BY <1>1, InvHolds, PTL

(* No stack but idle's ever holds more than it has room for: one frame,    *)
(* which is taken off again before the next trap.                          *)
THEOREM StacksSuffice == Spec => []FramesFit
<1>1. IInv => FramesFit
  <2> SUFFICES ASSUME IInv, NEW k \in (Tasks \cup {boot}) \ {idle}
               PROVE  Len(stack[k]) * TF_SIZE <= StackSize[k]
    BY DEF FramesFit
  <2> DEFINE n == Len(stack[k])
  <2>1. n \in Nat /\ n <= 1
    BY DEF IInv, Types, OneFrame, Threads
  <2>2. TF_SIZE \in Nat /\ StackSize[k] \in Nat /\ TF_SIZE <= StackSize[k]
    BY TrapAssumption, StackAssumption
  <2> HIDE DEF n
  <2>3. n = 0 \/ n = 1
    BY <2>1
  <2>4. n * TF_SIZE <= StackSize[k]
    BY <2>2, <2>3
  <2> QED BY <2>4 DEF n
<1> QED BY <1>1, InvHolds, PTL

(* The control registers, the timer, the frames and the scheduler's state  *)
(* keep their types.                                                       *)
THEOREM TypesOfTrap == Spec => []TypeOK
<1>1. IInv => TypeOK
  <2> SUFFICES ASSUME IInv PROVE TypeOK
    OBVIOUS
  <2>1. reg.sp[1] \in Tasks \cup {boot} /\ DOMAIN stack = Tasks \cup {boot}
    BY DEF IInv, Types, RegFile, Threads
  <2>2. {mie, mpie, mtie, masked} \subseteq BOOLEAN
    BY DEF IInv, Types
  <2> QED BY <2>1, <2>2 DEF IInv, Types, TypeOK, Causes, Threads
<1> QED BY <1>1, InvHolds, PTL
-----------------------------------------------------------------------------
(* The hart without interrupts, step by step. *)

(* Outside traps, an instruction is the same instruction on either hart. *)
LEMMA SeenStep ==
  ASSUME ~InTrap, ~InTrap', HNext
  PROVE  H!HNext
<1>1. Visible.reg = reg /\ Visible.pc = pc /\ Visible'.reg = reg' /\ Visible'.pc = pc'
  BY VisibleIs, VisibleNext
<1>2. CASE Booting
  BY <1>1, <1>2 DEF Booting, H!Booting, H!HNext
<1>3. CASE \E r \in {"s", "t"}, v \in Val : Work(r, v)
  <2>1. PICK r \in {"s", "t"}, v \in Val : Work(r, v)
    BY <1>3
  <2>2. H!Work(r, v)
    BY <1>1, <2>1 DEF Work, H!Work, InBody, H!InBody, Behind, H!Behind
  <2> QED BY <2>2 DEF H!HNext
<1>4. CASE \E c \in Args : LoadArgs(c)
  <2>1. PICK c \in Args : LoadArgs(c)
    BY <1>4
  <2>2. H!LoadArgs(c)
    BY <1>1, <2>1 DEF LoadArgs, H!LoadArgs, InBody, H!InBody, Behind, H!Behind
  <2> QED BY <2>2 DEF H!HNext
<1>5. CASE \E k \in Tasks : Start(k) \/ Yield(k) \/ Exit(k) \/ SyscallExit(k)
  <2>1. PICK k \in Tasks : Start(k) \/ Yield(k) \/ Exit(k) \/ SyscallExit(k)
    BY <1>5
  <2>2. Successor(k) => H!Successor(k)
    BY DEF Successor, H!Successor
  <2>3. CASE Start(k)
    <3>1. H!Start(k)
      BY <1>1, <2>2, <2>3 DEF Start, H!Start, CallSwitch, H!CallSwitch, Loc, H!Loc
    <3> QED BY <3>1 DEF H!HNext
  <2>4. CASE Yield(k)
    <3>1. H!Yield(k)
      BY <1>1, <2>2, <2>4 DEF Yield, H!Yield, CallSwitch, H!CallSwitch, Loc, H!Loc,
                           InBody, H!InBody, Behind, H!Behind
    <3> QED BY <3>1 DEF H!HNext
  <2>5. CASE Exit(k)
    <3>1. H!Exit(k)
      BY <1>1, <2>2, <2>5 DEF Exit, H!Exit, sys_exit, H!sys_exit, CallSwitch, H!CallSwitch,
                           Loc, H!Loc, InBody, H!InBody
    <3> QED BY <3>1 DEF H!HNext
  <2>6. CASE SyscallExit(k)
    <3>1. H!SyscallExit(k)
      BY <1>1, <2>2, <2>6 DEF SyscallExit, H!SyscallExit, IsExit, H!IsExit, Loc, H!Loc,
                           InBody, H!InBody
    <3> QED BY <3>1 DEF H!HNext
  <2> QED BY <2>1, <2>3, <2>4, <2>5, <2>6
<1>6. CASE context_switch
  <2>1. H!context_switch
    BY <1>1, <1>6 DEF context_switch, H!context_switch, loaded, H!loaded, stored, H!stored
  <2> QED BY <2>1 DEF H!HNext
<1>7. CASE task_entry_trampoline
  <2>1. H!task_entry_trampoline
    BY <1>1, <1>7 DEF task_entry_trampoline, H!task_entry_trampoline, Loc, H!Loc
  <2> QED BY <2>1 DEF H!HNext
<1>8. CASE Syscall
  <2>1. H!Syscall
    BY <1>1, <1>8 DEF Syscall, H!Syscall, InBody, H!InBody, Behind, H!Behind,
                   IsExit, H!IsExit, dispatch, H!dispatch, sys_write, H!sys_write,
                   sys_yield, H!sys_yield, kErrBadFd, H!kErrBadFd, kErrBadPtr,
                   H!kErrBadPtr, kErrUnknownSyscall, H!kErrUnknownSyscall
  <2> QED BY <2>1 DEF H!HNext
<1>9. CASE Nop
  <2>1. H!Nop
    BY <1>1, <1>9 DEF Nop, H!Nop, InBody, H!InBody, Behind, H!Behind
  <2> QED BY <2>1 DEF H!HNext
<1> QED BY <1>2, <1>3, <1>4, <1>5, <1>6, <1>7, <1>8, <1>9 DEF HNext

(* A step in which a thread sees nothing change is a stutter of its hart. *)
LEMMA Unseen ==
  ASSUME Visible'.reg = Visible.reg, Visible'.pc = Visible.pc,
         UNCHANGED <<context, live, current>>
  PROVE  UNCHANGED H!hvars
BY DEF H!hvars

LEMMA StepIsHartStep ==
  ASSUME IInv, [Next]_vars
  PROVE  [H!HNext]_(H!hvars)
<1>1. CASE UNCHANGED vars
  BY <1>1 DEF vars, hvars, tvars, csrs, H!hvars, Visible, InTrap, Frame
<1>2. CASE trap_init \/ timer_init
  <2>1. Booting /\ pc.at = "boot" /\ pc'.at = "boot"
    BY <1>2 DEF trap_init, timer_init, Booting, Loc
  <2>2. ~InTrap /\ ~InTrap'
    BY <2>1 DEF InTrap
  <2> QED BY <2>1, <2>2, SeenStep DEF HNext
<1>3. CASE \E r \in {"s", "t"}, v \in Val : TaskWork(r, v)
  <2>1. PICK r \in {"s", "t"}, v \in Val : TaskWork(r, v)
    BY <1>3
  <2>2. HNext /\ pc.at = "body" /\ pc' = Behind(pc)
    BY <2>1 DEF TaskWork, Work, HNext, InBody
  <2>3. pc'.at = "body"
    BY <2>2, BehindInBody DEF IInv, Types
  <2> QED BY <2>2, <2>3, SeenStep DEF InTrap
<1>4. CASE TaskInstruction
  <2>1. CASE \E c \in Args : current # idle /\ LoadArgs(c)
    <3>1. HNext /\ pc.at = "body" /\ pc' = Behind(pc)
      BY <2>1 DEF LoadArgs, HNext, InBody
    <3>2. pc'.at = "body"
      BY <3>1, BehindInBody DEF IInv, Types
    <3> QED BY <3>1, <3>2, SeenStep DEF InTrap
  <2>2. CASE \E k \in Tasks : Start(k) \/ Yield(k) \/ Exit(k)
    <3>1. HNext
      BY <2>2 DEF HNext
    <3>2. pc.at \in {"boot", "body"} /\ pc'.at = "context_switch"
      BY <2>2 DEF Start, Yield, Exit, sys_exit, CallSwitch, InBody, Loc
    <3> QED BY <3>1, <3>2, SeenStep DEF InTrap
  <2>3. CASE context_switch
    <3>1. HNext /\ pc.at = "context_switch" /\ ~InTrap
      BY <2>3 DEF context_switch, HNext, InTrap
    <3>2. Switching(reg, pc.n)
      <4>1. Running(reg, pc)
        BY <3>1, InCode
      <4> QED BY <3>1, <4>1 DEF Running, Returns
    <3>3. pc'.at \in CodePlaces
      <4>1. CASE pc.n = 6
        <5>1. pc' = context[current].ra /\ Waits(current)
          BY <2>3, <3>2, <4>1 DEF Switching, context_switch
        <5> QED BY <5>1 DEF Waits, Returns, CodePlaces
      <4>2. CASE pc.n # 6
        <5>1. pc' = [pc EXCEPT !.n = @ + 1] /\ pc \in Locs
          BY <2>3, <4>2 DEF context_switch, IInv, Types
        <5> QED BY <3>1, <5>1 DEF Locs, CodePlaces
      <4> QED BY <4>1, <4>2
    <3> QED BY <3>1, <3>3, SeenStep, VisibleNext
  <2>4. CASE task_entry_trampoline
    <3>1. HNext /\ pc.at = "trampoline" /\ pc'.at = "body"
      BY <2>4 DEF task_entry_trampoline, HNext, Loc
    <3> QED BY <3>1, SeenStep DEF InTrap
  <2> QED BY <1>4, <2>1, <2>2, <2>3, <2>4 DEF TaskInstruction
<1>5. CASE \/ TimerInterrupt \/ \E cause \in {"ecall", "ebreak", "fault"} : Exception(cause)
           \/ trap_entry \/ HandleTimer \/ HandleFatal \/ trap_exit \/ Time
  <2>1. UNCHANGED <<context, live, current>>
    BY <1>5 DEF TimerInterrupt, Exception, TakeTrap, trap_entry, HandleTimer, Resume,
             HandleFatal, trap_exit, Time, hvars
  <2>2. Visible'.reg = Visible.reg /\ Visible'.pc = Visible.pc
    BY <1>5, InterruptKeepsInv, ExceptionKeepsInv, EntryKeepsInv, HandleTimerKeepsInv,
       HandleFatalKeepsInv, ExitKeepsInv, TimeKeepsInv
  <2> QED BY <2>1, <2>2, Unseen
<1>6. CASE HandleBreakpoint
  <2>1. /\ Visible'.reg = Visible.reg /\ Visible'.pc = Behind(Visible.pc)
        /\ Visible.pc.at = "body" /\ UNCHANGED <<context, live, current>>
    BY <1>6, HandleBreakpointKeepsInv DEF HandleBreakpoint, Resume
  <2>2. H!Nop
    BY <2>1 DEF H!Nop, H!InBody, Behind, H!Behind
  <2> QED BY <2>2 DEF H!HNext
<1>7. CASE HandleEcall
  <2>1. /\ Visible'.reg = [Visible.reg EXCEPT !.a0 = dispatch(Visible.reg)]
        /\ Visible'.pc = Behind(Visible.pc) /\ Visible.pc.at = "body"
        /\ ~IsExit(Visible.reg) /\ UNCHANGED <<context, live, current>>
    BY <1>7, HandleEcallKeepsInv DEF HandleEcall, Resume
  <2>2. H!Syscall
    BY <2>1 DEF H!Syscall, H!InBody, Behind, H!Behind, IsExit, H!IsExit, dispatch,
             H!dispatch, sys_write, H!sys_write, sys_yield, H!sys_yield, kErrBadFd,
             H!kErrBadFd, kErrBadPtr, H!kErrBadPtr, kErrUnknownSyscall, H!kErrUnknownSyscall
  <2> QED BY <2>2 DEF H!HNext
<1>8. CASE \E k \in Tasks : HandleExit(k)
  <2>1. PICK k \in Tasks : HandleExit(k)
    BY <1>8
  <2>2. /\ Visible'.reg = reg' /\ Visible'.pc = pc' /\ Visible.pc.at = "body"
        /\ IsExit(Visible.reg) /\ reg'.a0 = current /\ reg'.a1 = k
    BY <2>1, HandleExitKeepsInv
  <2>3. /\ Successor(k) /\ live' = live \ {current} /\ current' = k /\ context' = context
        /\ pc' = Loc("context_switch", 0)
    BY <2>1 DEF HandleExit, sys_exit, CallSwitch
  <2>4. H!SyscallExit(k)
    BY <2>2, <2>3 DEF H!SyscallExit, H!InBody, IsExit, H!IsExit, Successor, H!Successor, Loc, H!Loc
  <2> QED BY <2>4 DEF H!HNext
<1> QED BY <1>1, <1>2, <1>3, <1>4, <1>5, <1>6, <1>7, <1>8 DEF Next, Step, Instruction

(* Traps cannot be seen from task code: with the frame's registers and     *)
(* program counter in place of the hart's while a trap is handled, every   *)
(* behaviour is one of a hart without interrupts.                          *)
THEOREM TrapsCannotBeSeen == Spec => TrapsInvisible
<1>1. Init => H!HInit
  <2> SUFFICES ASSUME Init PROVE H!HInit
    OBVIOUS
  <2>1. Visible.reg = reg /\ Visible.pc = pc
    BY VisibleIs DEF Init, HInit, Loc, Entering, Framed
  <2> QED BY <2>1 DEF Init, HInit, H!HInit, Loc, H!Loc, Top, H!Top
<1>2. IInv /\ [Next]_vars => [H!HNext]_(H!hvars)
  BY StepIsHartStep
<1> QED BY <1>1, <1>2, InvHolds, PTL DEF Spec, TrapsInvisible, H!HSpec
=============================================================================
