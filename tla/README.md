# Verification of the qemu_riscCore kernel

TLA+ models of the RV64 kernel in this repository, TLC configurations that
model-check them on small instances, and TLAPS proofs of nearly all their safety
properties and of every refinement, for every size. `PROJECT.json` lists components, runs,
the source lines behind every definition, mutants, findings, hazards and theorems.

    tlc -workers 2 -config MCSched.cfg RunNodes          # a run
    tlapm TaskSchedProofs.tla                            # a proof

## 1. The system

One hart, machine mode, no preemption: `boot/entry.S` clears `.bss` and calls
`kmain`, which brings up UART, page allocator, page tables, timer, scheduler and
two demo tasks, and hands the hart to the scheduler.

| Component | State | Operations | Talks to |
|---|---|---|---|
| List / Queue (`kernel/lib/ds`) | `next`/`prev` of head and nodes | init, push_front/back, pop_front/back, remove | RunQueue links tasks by `run_node` |
| TaskManager (`kernel/core/task`) | table of 32 tasks, next id, idle task | init, create_kernel_task, idle_task | scheduler, kmain |
| RunQueue, Scheduler (`kernel/core/sched`) | ready queue, current task | push, next, set_current; start, yield, reschedule (on_tick is empty) | context_switch, sys_exit |
| Context switch (`switch.S`, `bootstrap.cpp`) | `Task::context`, stacks | context_switch, trampoline, task_bootstrap_entry | RunQueue::current |
| Trap (`kernel/arch/riscv/trap`) | CSRs, frames on stacks | trap_entry, trap_handle, return by mret | syscalls, timer |
| System calls | registers in the frame | dispatch, write, exit, yield | UART, scheduler |
| Timer (`kernel/time`, CLINT) | mtime, mtimecmp, interval, ticks | init, on_interrupt | trap |
| Page allocator (`kernel/mm/pmm.cpp`) | bitmap, counters | pmm_init, alloc_page, free_page, queries | page tables |
| Page tables, MMU (`kernel/arch/riscv/mm`) | tables in frames, satp | map_page, map_range, unmap_page, virt_to_phys, enable_sv39 | allocator |
| Kernel address space | root pointer | kernel_address_space_init | page tables, kmain |
| UART (`drivers/uart`) | THR and LSR of a 16550 | putc, puts, put_dec, put_hex (init is empty) | kmain, tasks, sys_write, timer handler |
| Bitmap (`kernel/lib/ds`) | words of its creator, bit count | clear_all, set, clear, test, find_first_zero | nobody yet |

What is hard here: timer interrupts fall between any two instructions, those of
`context_switch` included; contexts are saved now and loaded much later, when
stacks may have changed hands; exit leaves a trap by a context switch instead of
`mret`; list nodes and frames are reused with old contents; calls fail half way
and their results are ignored; nothing is ever reclaimed; and idle never gives
the hart back. `PROJECT.json` lists each hazard at its line with the
properties that would catch it. What makes each component correct:

* list: one ring through the head, and FIFO/LIFO behaviour from any reuse;
* scheduler: no task lost, doubled or resumed after death; every task resumes on
  its own stack; round robin;
* traps and timer: task code cannot tell that a trap happened; ticks recur, come
  neither early nor ever later by more than a bound, and do not starve the code they interrupt;
* allocator: no page lost, handed out twice or taken from a reserved range;
* UART: what a thread prints goes out whole although the handler prints at any
  moment, and printing ends;
* bitmap: a set of numbers, inside the words it was given;
* page tables: a flat translation that changes page by page, no frame lost or
  shared, and the kernel mapped whatever happens beside it.

## 2. Modules

| Module | Models | Composes |
|---|---|---|
| `Deque` | what the list promises | |
| `IntrusiveList` | `list.cpp` on its pointers, `queue.cpp` | implements `Deque` |
| `TaskSched` | TaskManager, RunQueue, Scheduler, switch, bootstrap, sys_exit | uses the queue that `IntrusiveList` justifies |
| `RunNodes` | `TaskSched` with the ready queue as `run_node` links | extends `SchedFairness`; the operations of `list.cpp` |
| `SchedFairness` | `TaskSched` with a history of turns | `TaskSched` |
| `Hart` | instructions of tasks and of `context_switch`; ecall as one instruction | |
| `Trap` | trap entry, handler, syscalls, timer around `Hart` | extends and implements `Hart` |
| `TrapTiming` | `Trap` with a bound on the time between two steps of the hart | extends `Trap` |
| `Timer` | `timer.cpp` on the CLINT's registers, access by access | |
| `Uart` | `uart.cpp` under interrupts, `sys_write`'s loop, the handler's printing | |
| `UartNumber` | `put_dec`, `put_hex` | |
| `Bitmap` | `bitmap.cpp`, as functions | |
| `DataStructures` | the callers of a list and a bitmap | extends `IntrusiveList` and `Bitmap` |
| `Page` | `page.h` | |
| `Pmm` | `pmm.cpp` | `Page` |
| `AddressSpace` | what page tables promise | `Page` |
| `PageTables` | `page_table.cpp`, `sv39.h`, `mmu.cpp`, `kernel_address_space.cpp` | implements `AddressSpace` |
| `Memory` | `pmm_platform.cpp` and kmain up to paging, then other users of pages | extends `Pmm`, instantiates `PageTables` on its bitmap |
| `DataStructuresProofs`, `TaskSchedProofs`, `RunNodesProofs`, `TrapProofs`, `TimerProofs`, `UartProofs`, `MemoryProofs`, `PageTablesProofs` | proofs | |
| `MCPmm`, `MCPageTables`, `MCMemory`, `MCTrap`, `MCTrapTiming`, `MCTimer`, `MCUart` | constants of the runs | |

Definitions keep the names of the functions they model. Definitions whose
comment starts with *Mutant* are deliberate bugs, used to show that a property
can fail; no specification uses them.

**IntrusiveList.** `next` and `prev` map the head and every node to a node or
null. Popped and removed nodes keep stale links, as in the code. Callers push
unlinked nodes and remove linked ones; that this holds for `run_node` is
`LinksAreQueue` with `ReadyQueueExact`.

**TaskSched.** A call into the scheduler is one step: nothing the timer handler
does touches the scheduler (`on_tick` has no caller), and `Trap` shows that the
handler is invisible to what it interrupts. `cpu` says where the hart executes and on which
stack, `context` what each slot would resume, `frames` whose call frames a stack
holds. `Bootstrap`, `Create`, `Push` and `Start` are kmain's calls in their
order; tasks may also create and push tasks. Creators use a stack no live task
uses; stacks of dead tasks are reused. `reschedule` is translated with its order
of steps: pop, idle if none, requeue the previous task if it is Running and not
idle, switch.

**RunNodes.** The scheduler on memory: `RunQueue::next` follows the sentinel's link
(`First`), and `start`, `yield` and `exit` hand the hart to the task found there.
`reschedule` pops one node and may push another, `create_kernel_task` clears a
node, `TaskManager::init` and `RunQueue::init` make the first ring. The sequence
`ready` records pushes and pops; no step looks at it. A slot stands for its
`run_node`; `container_of` is then the identity.

**Hart and Trap.** `Hart` executes task bodies (arbitrary loops) and
`context_switch` one instruction at a time, with `s0`-`s11` as one value and the
registers no property tells apart as another. `Trap` adds CSRs, stacks of frames and
the timer. A pending interrupt is taken before any instruction when `MIE` and `MTIE`
are set. Entry, handler and return are a step each, as they run with interrupts
masked; the handler clobbers what a C function may clobber. The timer is the
distance between `mtime` and `mtimecmp`. Stacks have the sizes of `kernel.cpp`,
`task_manager.cpp` and `linker.ld`, and frames that of `trap_entry.S`. `Installs`
says whether kmain calls `trap::init`: the committed kmain does not (finding below),
and the passing runs are about a kmain that does. `Trap` lets any time pass between
two steps. `TrapTiming` allows at most `kStep`, except in idle's `wfi`.

**Pmm.** Translated with the masks as written: `mark_used_index` sets bit
`index % 64` of its word, `mark_free_index` clears bit `word % 64`. Loops over
pages are set operations; the marks of different pages commute.

**PageTables.** Entries are records of page number and flag set; frames start
with arbitrary contents; the allocator gives the lowest free frame or none. A
turn of `map_range`'s loop is a step, so half-done ranges are visible states.
After boot, calls map and unmap outside the kernel's regions, and try to map over them.

**Memory.** `Pmm` and `PageTables` in one state space: the free frames of the tables
are the free pages of the bitmap, and a table is drawn by marking its page. Before
kmain's `pmm_init` the allocator may be used alone, over any memory and with any
reserved ranges, as the unit tests use it. After paging is on, other code allocates
pages, fills them and frees them while ranges are mapped and unmapped.

**Timer.** `mtime` advances between any two accesses: after `interrupt_after`
has read it and before it writes `mtimecmp`, while the handler prints, and while
another trap masks interrupts. `mtimecmp` starts with any value. `MCTimer` adds the
digits of the two numbers the handler prints (`UartNumber`).

**Uart.** A speaker is the running thread, `sys_write` in its trap, or the timer
handler. The read of `LSR` that finds `THRE` and the write of `THR` are two
steps, and a tick may come between them unless a trap is being handled. `UART::init`
is empty, so the FIFO stays off and `THR` is one character deep. `UartNumber` has
the digits of numbers as sequences of values.

**Bitmap.** A word is the set of its bits that are 1. Words start with anything
in them and lie in front of memory that is not the bitmap's. `DataStructures` calls
its functions in any order, next to the list.

## 3. Runs

| Run | Shows | States |
|---|---|---|
| `ds` | `TypeOK`, `Ring`, `ImplementsDeque`; `BitmapIsSet`, `NeighboursUntouched` | 109 200 |
| `sched` | `TypeOK`, `ReadyQueueExact`, `CpuRunsCurrent`, `ResumeIntact`, `IdleStrandsAtMostOne`, `HandlesNeverDangle`, `NoSecondTurnFirst`, `LinksAreQueue`, `EveryReadyTaskRuns` | 26 668 |
| `trap` | `TypeOK`, `SavedRegistersSurvive`, `InterruptsOn`, `FramesFit`, `TrapsInvisible` (refinement of `Hart`) | 1 287 082 |
| `trap_live` | `TicksRecur`, `CodeProgresses` | 40 914 |
| `timer` | `NeverEarly`, `DriftBounded`, `NoCatchingUp`, `PrintsItsValue` | 70 908 |
| `uart` | `TypeOK`, `ThreadOutputWhole`, `OnlyTickTailLost`, `PrintingEnds` | 28 125 |
| `memory` | `TypeOK`, `OwnedAvoidReserved`, `PoolConserved`, `FreeCountExact`; `TablesAccounted`, `KernelReachable` | 22 664 |
| `tables` | `TypeOK`, `FramesAccounted`, `TrueMeansMapped`, `KernelStaysMapped`, `ImplementsAddressSpace` | 5 793 |
| `lone_yield`, `pmm_test`, `ecall_exit`, `vector` | violations, section 5 | |

**Bounds.**
* `ds`: three nodes are enough for a node with two neighbours that have
  themselves been reused; the proofs cover any number. Two words of two bits, with
  all contents, and counts of no bits, a part of a word and whole words; callers
  name every bit.
* `sched`: five slots (idle and four tasks) and three stacks, so that stacks must be
  reused while others wait and the table runs full. Ids are bounded by the slots.
  One entry: entries do not influence scheduling.
* `trap`: two tasks and idle (symmetric tasks), bodies of two instructions (so
  that an `mepc` that is not advanced differs from one that is), one value
  besides the initial one, an interval of two. Every instruction is interrupted;
  traps do not nest, since interrupts are masked and handlers do not fault. The
  liveness run has one task and idle, a write and an exit as calls, a step of
  at most one unit of time and an interval of three.
* `memory`: 2-byte pages and 2-bit words put many word boundaries into 32 pages, of
  which `pmm_init`, with its mask as written, frees half. Alone, the allocator gets
  memories that are aligned, unaligned, without a whole page and larger than the
  bitmap, with reserved ranges before, across, inside and behind. For boot, 13
  tables are needed, and the kernel image leaves 15, 14 or too few pages (12, 4, none).
  `pmm_test` is the memory of `tests/mm/pmm_unit_tests.cpp`.
* `tables`: four entries per table, 2-byte pages, all three levels. Pools of
  frames are empty, too small, exact (6) and 8; old contents are zero, a leaf
  or a link. CLINT and UART share a table and memory fills two, as in `memmap.h`.
  There, 69 tables are needed; the allocator, its mask bug included, has several hundred frames to give.

* `timer`: an interval of 3 and a latency of 4, so that a handler may take longer
  than the interval; the clock is followed for 32 units from 0 and up to 255, several
  ticks of any lateness; 255 fills a buffer of 3 digits as 2^64 - 1 fills the 20
  of the code.
  `kLatency` bounds how long a due interrupt takes to be counted and armed anew; it
  is an assumption about the hart, on which only `DriftBounded` rests.
* `uart`: texts with and without a line end, the empty one and null; `kMaxTicks`
  (2) and `kMaxSaid` (4) bound what happens until the line is quiet again, so that
  ticks fall before, between and behind the accesses of one string. Over any
  longer time these episodes repeat.

**Deadlock** is checked in all runs but those of `Trap`, where a fatal exception
really halts the machine with interrupts masked.

**Fairness.** `RunNodes!NLiveSpec` (`TaskSched!LiveSpec` on links): weak fairness of
kmain's `Bootstrap` and `Start`, of the trampoline, and of a yield or an exit: a task
eventually gives up the hart. The first three are straight-line code; the last is
what a cooperative task owes and the demo tasks do. No fairness is assumed of idle,
which never yields. `TrapTiming!LiveSpec`: weak fairness of the hart's step and of
time, and `TimingAssumption`: an interval is longer than two steps of the hart. That
is what `CodeProgresses` rests on, and no less would do: armed in the handler, the
timer must not be due again before `mret` and the instruction behind it. The code
leaves ample room: `on_interrupt` prints first and arms the timer last
(`timer.cpp:19-23`), so the steps meant are some dozens of instructions, and kmain
asks for an interval of a second. `Uart!LiveSpec`: weak fairness of the hart's
instructions and of the transmitter. That ticks leave room for the code they
interrupt, `kMaxTicks` here, is `CodeProgresses` and `NoCatchingUp`.

## 4. Proofs

Every theorem is about every value of the constants that its module's named
`ASSUME`s allow; TLC evaluates them on each run. They say:

* sizes are positive, and null, list heads and the idle and boot stacks are none of
  the other things of their kind (`SchedAssumption`, `NodesAssumption`,
  `ListAssumption`, `BitmapAssumption`, `HartAssumption`, `TrapAssumption`,
  `TimerAssumption`, `UartAssumption`, `PmmAssumption`);
* every stack but idle's holds a trap frame (`StackAssumption`; `kernel.cpp` and
  `linker.ld` give 1 KiB and 16 KiB, a frame is 288 bytes);
* the page size divides the address space (`PageAssumption`), and memory ranges end
  before its top (`PmmAssumption`, `MemoryAssumption`);
* frames are pages and not null (`TableAssumption`); callers of the page tables stay
  inside the 39 bits of Sv39, and map physical ranges that do not wrap and do not
  start at page 0, for which `virt_to_phys` could only answer its "not mapped"
  (`CallAssumption`). `kernel_address_space.cpp`, the only caller, does so;
* memory, UART and CLINT begin on a page, are not empty, and share no page once
  their ends are rounded up (`KernelAssumption`, the addresses of
  `platform/qemu/memmap.h`); where the tables live in pages of the allocator all
  this holds too, and the kernel image lies in DRAM (`LayoutAssumption`,
  `scripts/linker.ld`).

`TimingAssumption` (section 3) serves the liveness run; no proof uses it.
Nothing is assumed about how many slots, stacks, nodes, words, pages, frames,
texts or ticks there are.

* `DataStructuresProofs`. `ListRing` is `Spec => []Ring`. The ghost order of the
  linked nodes is part of the state; the invariant ties `next` and `prev` of every
  linked node and of the head to it and leaves unlinked nodes unconstrained, which
  is why stale links do no harm. `ListImplementsDeque` and `TypesOfList` follow step
  by step. `BitmapStaysSet` rests on facts about every bitmap: a bit number is a
  word and an offset in one way only, `masked` hides what is past the count, and the
  first word with a zero holds the least missing number. `BitmapKeepsToItself` is
  the action property: it gives every bit of memory after `set`, `clear` and
  `clear_all`, those past the count and behind the bitmap's words included.
* `TaskSchedProofs`. The properties are not inductive one by one:
  `ReadyQueueExact` needs to know that the running task is alone
  (`CpuRunsCurrent`), `ResumeIntact` that no two live tasks share a stack
  (`StacksApart`) and that the hart is on the stack of the current task, and all
  need what holds before kmain hands over (`BootPhase`), that idle stays alive
  (`IdleAlive`) and that created tasks wait Ready (`HandlesReady`). `IInv` is
  their conjunction; a lemma per action shows that it is preserved, and
  `TypeCorrect`, `QueueExact`, `CurrentRuns`, `ContextsIntact`, `IdleStrands`
  are its conjuncts. `HandlesStay` proves the action property.
* `RunNodesProofs`. `RoundRobin`: while a task waits, nobody is served twice.
  `served[s]` collects who was dispatched since `s` began to wait; that nobody
  ahead of `s` in the queue is in it is inductive together with `IInv`.
  `QueueInMemory`: a push at the back and a pop from the front keep the links a
  ring of the queue, whatever the links of other nodes hold. Where they are, the
  task the sentinel's link leads to is the head of the queue (`FirstIsNext`), so every
  start, yield and exit on pointers is one on the sequence: `NodesRunScheduler`.
* `TimerProofs`. `IInv` says what each step of `init` and of the handler has
  written (`Periods`), and how far the last look at the clock lies from the start, in
  intervals from below and in intervals and latencies from above (`Looks`).
  `TicksNeverEarly`, `LateTicksStayLate`; `DriftIsBounded` needs `InTime` too, the
  model's bound `kLatency` on how late a handler comes.
* `TrapProofs`. The invariant looks through a trap at the code behind it: `Running`
  says of the registers and the place that the innermost frame will restore, or
  that are live outside a trap, whose they are, also half way through
  `context_switch`. With it goes that no stack holds more than one frame (`OneFrame`),
  as traps run masked (`Masking`). `RegistersSurvive`,
  `InterruptsStayOn` (on from the start of the timer to the first exit through an
  `ecall`, off for good from there), `StacksSuffice` and `TypesOfTrap` follow, and so does
  `TrapsCannotBeSeen`: entry, handler and return implement the hart without traps.
* `UartProofs`. `UInv` says that a trap finishes before its thread goes on (`Turns`),
  what `THR` holds when a thread's look at `LSR` is out of date (`Stale`), and what
  has been sent and is yet to be sent. The lemmas before it are about `FlattenSeq`, with which
  `putc` turns a line feed into two characters: it is distributive over `\o`, by
  least counterexample. `ThreadPrintsWhole`, `OnlyTicksLose`, `TypesOfUart`.
* `MemoryProofs`. `PInv` is: not initialised, or the managed pages are whole pages of
  the range asked for, the counter is the number of clear bits, and a page of the
  pool is free or owned and clear of every reserved range. The last is inductive
  only with `free_bit(i) = i` for the pages of the pool: `mark_free_index` takes its
  mask from the word number and so can clear one bit of each word, and a page that
  was handed out can be given back because it is one that `pmm_init` freed through
  the same mask (lemma `FreeBit`). `OwnedPagesAreClear`, `PagesAreConserved`,
  `FreeCountIsExact`, `TypesOfPmm` hold of `Pmm` alone (`Spec`) and in `Memory`
  (`MemSpec`), where the page tables draw pages.

  The second half is about the composition. `PT` is an instance of
  `PageTablesProofs` on `Memory`'s state: what is free is what the bitmap says, and
  the pool is what other code does not hold. The lemmas `Same...` show that its
  operators are those of `P`, so every lemma about page tables can be cited. `MInv`
  adds to `PInv` and to their invariant who holds each page: one that is handed out
  is a table or somebody else's, never both (`Holders`). Steps of the tables are
  steps of `PT`; for other code `PageTablesProofs` has `OthersTake`, `OthersGive`
  and `OthersWrite`: a free page leaves or joins the pool, or a page outside it is
  overwritten, and no translation changes. `TablesAreAccounted` then follows from
  the tree and from `PoolConserved` together, `KernelIsReachable` from the regions
  that stay granted.
* `PageTablesProofs`. `Tree`: free frames and the tables of the three levels are
  apart and make up the pool, every valid upper entry is a link, and every table
  but the root has one link. `FramesAreAccounted` is part of it. From the tree,
  three indices determine a page; a fresh table changes no translation, and a
  written leaf changes that of its page only. `TrueIsMapped` adds how far the loop
  of `map_range` has come (`Midway`) and what granted calls still hold (`Honours`);
  `TablesImplementSpace` is the refinement of `AddressSpace`.
  `KernelIsMapped` has to show that no `map_page` of the boot fails, as nobody looks
  at its result. That takes `BootInv`: the regions are mapped in their order and
  nothing behind the loop's place is mapped yet (`Queue`, `Sparse`), so no entry is
  found in use, as the regions share no page; every valid entry of the upper levels
  lies on the way to a byte of the kernel (`Used`), so there are at most as many
  links as `TablesNeeded` counts, and while one is missing a page is free
  (`TablesSuffice`); and every valid entry of level 0 is a leaf (`Firm`). Behind boot
  the three calls stay granted (`Kept`), since callers unmap only their own.

Only model-checked:

* liveness (`EveryReadyTaskRuns`, `TicksRecur`, `CodeProgresses`, `PrintingEnds`),
  which is out of the prover's reach;
* `PrintsItsValue`: what the recursive `Filled` of `UartNumber` and the fold of its
  digits compute is an induction over data, and `put_hex` is stated with powers of
  two, of which the provers know nothing.

Every other invariant and action property of a passing run, and each refinement, is
a theorem.

## 5. Findings

* `lone_yield`: a task that yields alone is requeued, idle runs, and idle never
  gives the hart back (`scheduler.cpp:44`; `task_manager.cpp:21` is commented
  out). The development list asks that with only one task no wrong switch happens.
* `pmm_test`: `mark_free_index` computes its mask from the word number
  (`pmm.cpp:46`), so `pmm_init` frees one page per 64. The unit test expects 14
  free pages of 16.
* `ecall_exit`: `sys_exit` reached by `ecall` switches tasks inside the trap;
  `mstatus` belongs to no context, so the next task runs with interrupts masked
  and no tick comes again (`sys_exit.cpp:22`). The demo tasks call `sys_exit` directly and are not affected.
* `vector`: kmain prints "trap installed", but `trap::init` is never called, and
  the timer interrupt is enabled with `mtvec` at its reset value.

Noted without a run: the idle stack (256 bytes) is smaller than a trap frame (288),
so `FramesFit` leaves idle out; a tick between a task's look at `LSR` and its write
of `THR` loses the last character the handler printed, a line feed
(`OnlyTickTailLost` says that it loses nothing else); every period of the timer is
longer than the interval by the handler's time (`DriftBounded`); `enable_sv39` has
no effect on code that stays in M-mode; `sys_yield` answers 0 and switches nothing,
while the development list suggests a switch before the trap returns; a mapping
without R, W and X makes its address unusable.

## 6. Not modelled

* `tools/riscv64-pk/include`: installed headers of the RISC-V proxy kernel, a
  third-party program. No file of the kernel includes them. They are three
  quarters of the repository's lines, tables of opcodes and CSR numbers for the
  most part, and have no behaviour in this system; of the kernel's own code the map
  covers more than half, the rest being declarations, includes and constants.
* How the compiler lays out C++ stack frames: `FramesFit` counts trap frames, not
  the calls of the handler, whose size is the compiler's choice.
* The TLB: no translation takes place in M-mode.
* 64-bit wrap of `mtime` and of ranges at the top of the address space, which no caller passes.
* A received character and UART set-up: the driver has neither.
* `classify_trap` and `handle_illegalinstruction` (`trap_logic.h`), which only
  unit tests call; accessors in `riscv.h` and symbols in `linker_symbols.h` without a caller.
* One module for all of kmain: memory, timer and scheduler share nothing but the
  hart, and `TrapsInvisible` is what lets them be checked one by one.
* Tests and host stubs, which are read as statements of intent.

## 7. Plan

The models are complete up to section 6, and what section 4 lists as only
model-checked is out of the prover's reach. A change of the kernel that gives back
page tables, or that unmaps its own regions, would reopen `Holders` and `Kept` in
`MemoryProofs` and `PageTablesProofs` first.
