----------------------------- MODULE TaskSched -----------------------------
(***************************************************************************)
(* The cooperative kernel-task scheduler of kernel/core: TaskManager (the  *)
(* fixed table of tasks), RunQueue (ready queue and current task),         *)
(* Scheduler (start, yield, reschedule), the assembly context_switch and   *)
(* task_entry_trampoline, bootstrap_scheduler, and sys_exit.               *)
(*                                                                         *)
(* One hart and no preemption (on_tick is empty and nothing calls it), so  *)
(* a call into the scheduler is one step; what runs in between, and on     *)
(* which stack, is the state.  The ready queue is the sequence that        *)
(* IntrusiveList shows the linked run_nodes to be.                         *)
(***************************************************************************)
EXTENDS Naturals, Sequences

CONSTANTS
  kMaxTasks,        \* slots in s_tasks (32)
  Entries,          \* entry functions passed to create_kernel_task
  Stacks,           \* stack areas passed to create_kernel_task
  idle_task_entry,  \* the idle loop and
  s_idle_stack,     \* its stack
  boot_stack,       \* the stack kmain runs on
  NULL              \* nullptr, and a zeroed register or field

Slots     == 1..kMaxTasks
AllStacks == Stacks \cup {s_idle_stack}

ASSUME SchedAssumption ==
  /\ kMaxTasks \in Nat \ {0}
  /\ NULL \notin Slots
  /\ NULL \notin AllStacks \cup {boot_stack}
  /\ NULL \notin Entries \cup {idle_task_entry}
  /\ s_idle_stack \notin Stacks
  /\ boot_stack \notin AllStacks
  /\ idle_task_entry \notin Entries

VARIABLES
  s_tasks,      \* the task table
  s_next_id,
  s_idle_task,
  context,      \* the saved registers of every slot: ra and sp
  ready,        \* RunQueue::s_ready_queue, front first
  s_current,    \* RunQueue::s_current
  cpu,          \* where the hart executes, and on which stack
  frames,       \* the task whose call frames each stack holds
  handles       \* Task* a caller got from create and has not pushed yet

vars == <<s_tasks, s_next_id, s_idle_task, context, ready, s_current, cpu,
          frames, handles>>

State == {"Empty", "Ready", "Running", "Blocked", "Dead"}

(* Places in the code a context can return to: the first entry of a task, *)
(* the task's own code behind a yield, the wfi loop that ends sys_exit.   *)
Resume == {"trampoline", "body", "wfi_loop"}

Members(q) == {q[i] : i \in 1..Len(q)}
NoDup(q)   == \A i, j \in 1..Len(q) : q[i] = q[j] => i = j

With(st) == {s \in Slots : s_tasks[s].state = st}
Live     == With("Ready") \cup With("Running")

-----------------------------------------------------------------------------
(* Static storage after entry.S has cleared .bss; kmain runs on the boot   *)
(* stack.                                                                  *)
Zeroed == [id |-> 0, state |-> "Empty", entry |-> NULL, stack_base |-> NULL]

Init ==
  /\ s_tasks = [s \in Slots |-> Zeroed]
  /\ s_next_id = 0
  /\ s_idle_task = NULL
  /\ context = [s \in Slots |-> [ra |-> NULL, sp |-> NULL]]
  /\ ready = <<>>
  /\ s_current = NULL
  /\ cpu = [pc |-> "boot", sp |-> boot_stack]
  /\ frames = [k \in AllStacks |-> NULL]
  /\ handles = {}

-----------------------------------------------------------------------------
(* TaskManager *)

(* Mutant: a dead task's slot counts as free. *)
FirstUnused(tasks, s) ==
  /\ tasks[s].state \in {"Empty", "Dead"}
  /\ \A r \in 1..(s - 1) : tasks[r].state \notin {"Empty", "Dead"}

FirstEmpty(tasks, s) ==
  /\ tasks[s].state = "Empty"
  /\ \A r \in 1..(s - 1) : tasks[r].state # "Empty"

(* Mutant: the slot's context is not initialised. *)
create_without_context(tasks, id, s, e, k) ==
  /\ s_tasks' = [tasks EXCEPT ![s] =
       [id |-> id, state |-> "Ready", entry |-> e, stack_base |-> k]]
  /\ s_next_id' = id + 1
  /\ UNCHANGED context

(* The slot's record and the context its first switch will load. *)
create_kernel_task(tasks, id, s, e, k) ==
  /\ s_tasks' = [tasks EXCEPT ![s] =
       [id |-> id, state |-> "Ready", entry |-> e, stack_base |-> k]]
  /\ s_next_id' = id + 1
  /\ context' = [context EXCEPT ![s] = [ra |-> "trampoline", sp |-> k]]

(* TaskManager::init() and RunQueue::init(). *)
bootstrap_scheduler ==
  LET cleared == [s \in Slots |-> [s_tasks[s] EXCEPT
                     !.state = "Empty", !.entry = NULL, !.stack_base = NULL]]
  IN \E s \in Slots :
       /\ FirstEmpty(cleared, s)
       /\ create_kernel_task(cleared, 1, s, idle_task_entry, s_idle_stack)
       /\ s_idle_task' = s
       /\ ready' = <<>>
       /\ s_current' = NULL
       /\ UNCHANGED <<cpu, frames, handles>>

-----------------------------------------------------------------------------
(* The context switch *)

(* Mutant: the stack pointer is saved after the new one is loaded. *)
context_switch_late_save(from, to, ra) ==
  /\ context' = [context EXCEPT ![from] = [ra |-> ra, sp |-> context[to].sp]]
  /\ cpu' = [pc |-> context[to].ra, sp |-> context[to].sp]

(* Save into from's context, then load to's; ret continues at its ra. *)
context_switch(from, to, ra) ==
  LET saved == [context EXCEPT ![from] = [ra |-> ra, sp |-> cpu.sp]]
  IN /\ context' = saved
     /\ cpu' = [pc |-> saved[to].ra, sp |-> saved[to].sp]

(* task_entry_trampoline calls task_bootstrap_entry, which asks RunQueue   *)
(* only now whose entry to call, and calls it on the stack just loaded.    *)
task_bootstrap_entry ==
  /\ cpu' = [cpu EXCEPT !.pc = "body"]
  /\ frames' = [frames EXCEPT ![cpu.sp] = s_current]
  /\ UNCHANGED <<s_tasks, s_next_id, s_idle_task, context, ready, s_current,
                 handles>>

-----------------------------------------------------------------------------
(* RunQueue and Scheduler *)

(* Queue::push. *)
Enqueue(q, s) == Append(q, s)

push(s) ==
  /\ s_tasks' = [s_tasks EXCEPT ![s].state = "Ready"]
  /\ ready' = Enqueue(ready, s)

(* RunQueue::next(), and the fallback both callers of it use. *)
Popped == IF ready = <<>> THEN NULL ELSE Head(ready)
Rest   == IF ready = <<>> THEN ready ELSE Tail(ready)
OrIdle(task) == IF task = NULL THEN s_idle_task ELSE task
NextTask == OrIdle(Popped)

(* Mutant: idle is started first. *)
start_with_idle(task) ==
  /\ s_current' = s_idle_task
  /\ s_tasks' = [s_tasks EXCEPT ![s_idle_task].state = "Running"]
  /\ cpu' = [pc |-> context[s_idle_task].ra, sp |-> context[s_idle_task].sp]
  /\ UNCHANGED <<s_next_id, s_idle_task, context, frames, handles>>

(* start, once the queue has given it its first task. *)
start_with(task) ==
  /\ s_current' = task
  /\ s_tasks' = [s_tasks EXCEPT ![task].state = "Running"]
  /\ cpu' = [pc |-> context[task].ra, sp |-> context[task].sp]
  /\ UNCHANGED <<s_next_id, s_idle_task, context, frames, handles>>

start == ready' = Rest /\ start_with(NextTask)

(* Mutant: a task that has exited is queued again. *)
RequeuesAny(tasks) == s_current # s_idle_task

(* The previous task goes back to the queue if it can still run. *)
Requeues(tasks) ==
  s_current # s_idle_task /\ tasks[s_current].state = "Running"

(* reschedule, once the queue has given it the next task.  tasks is the    *)
(* table on entry and ra where the caller continues: a context switch      *)
(* comes back there, and so does the early return.                         *)
Returns(task)         == task = NULL \/ s_current = NULL
GoesBack(tasks, task) == ~Returns(task) /\ Requeues(tasks)

switch_to(tasks, task, ra) ==
  IF Returns(task)
  THEN /\ s_tasks' = tasks
       /\ cpu' = [cpu EXCEPT !.pc = ra]
       /\ UNCHANGED <<s_current, context>>
  ELSE /\ s_tasks' = [s \in Slots |->
            CASE s = task -> [tasks[s] EXCEPT !.state = "Running"]
              [] s = s_current /\ s # task /\ Requeues(tasks)
                              -> [tasks[s] EXCEPT !.state = "Ready"]
              [] OTHER        -> tasks[s]]
       /\ s_current' = task
       /\ context_switch(s_current, task, ra)

reschedule(tasks, ra) ==
  /\ ready' = IF GoesBack(tasks, NextTask) THEN Enqueue(Rest, s_current) ELSE Rest
  /\ switch_to(tasks, NextTask, ra)

yield == reschedule(s_tasks, "body")

(* The table when sys_exit calls reschedule. *)
Exited == IF s_current = NULL THEN s_tasks
          ELSE [s_tasks EXCEPT ![s_current].state = "Dead"]

sys_exit == reschedule(Exited, "wfi_loop")

-----------------------------------------------------------------------------
(* The flows of control that call the operations: kmain until start, then  *)
(* the body of whichever task the hart runs.                               *)

InKmain == cpu.pc = "boot"
InTask  == cpu.pc = "body" /\ frames[cpu.sp] # s_idle_task
InIdle  == cpu.pc = "body" /\ frames[cpu.sp] = s_idle_task

Caller == (InKmain /\ s_idle_task # NULL) \/ InTask

Bootstrap == InKmain /\ s_idle_task = NULL /\ bootstrap_scheduler

(* Callers give every task a stack no live task has; they may reuse the    *)
(* stack of a dead one.                                                    *)
Create(e, k) ==
  /\ Caller
  /\ \A r \in Live : s_tasks[r].stack_base # k
  /\ \E s \in Slots :
       /\ FirstEmpty(s_tasks, s)
       /\ create_kernel_task(s_tasks, s_next_id, s, e, k)
       /\ handles' = handles \cup {s}
       /\ UNCHANGED <<s_idle_task, ready, s_current, cpu, frames>>

(* No stack, or no slot left: nullptr, which RunQueue::push refuses. *)
CreateFails(k) ==
  /\ Caller
  /\ k = NULL \/ With("Empty") = {}
  /\ UNCHANGED vars

Push(s) ==
  /\ Caller
  /\ s \in handles
  /\ push(s)
  /\ handles' = handles \ {s}
  /\ UNCHANGED <<s_next_id, s_idle_task, context, s_current, cpu, frames>>

Start == InKmain /\ s_idle_task # NULL /\ start

EnterTask == cpu.pc = "trampoline" /\ task_bootstrap_entry

Yield == InTask /\ yield /\ UNCHANGED <<s_next_id, s_idle_task, frames, handles>>

(* A call of sys_exit, or the entry function returning. *)
Exit == InTask /\ sys_exit /\ UNCHANGED <<s_next_id, s_idle_task, frames, handles>>

(* The idle loop waits for an interrupt and goes round: it never calls the *)
(* scheduler (the call in it is commented out).                            *)
IdleWfi == InIdle /\ UNCHANGED vars

Next ==
  \/ Bootstrap \/ Start \/ EnterTask \/ Yield \/ Exit \/ IdleWfi
  \/ \E e \in Entries, k \in Stacks : Create(e, k)
  \/ \E k \in Stacks \cup {NULL} : CreateFails(k)
  \/ \E s \in Slots : Push(s)

Spec == Init /\ [][Next]_vars

(* The hart keeps executing: kmain reaches start(), a loaded context runs, *)
(* and a cooperative task yields or ends (task_A and task_B loop over a    *)
(* bounded amount of work between two yields).                             *)
Fairness ==
  /\ WF_vars(Bootstrap) /\ WF_vars(Start) /\ WF_vars(EnterTask)
  /\ WF_vars(Yield \/ Exit)

LiveSpec == Spec /\ Fairness

-----------------------------------------------------------------------------
(* The types of the scheduler's tables, registers and queue. *)
TypeOK ==
  /\ s_tasks \in [Slots -> [id : Nat, state : State,
                            entry : Entries \cup {idle_task_entry, NULL},
                            stack_base : AllStacks \cup {NULL}]]
  /\ s_next_id \in Nat
  /\ s_idle_task \in Slots \cup {NULL}
  /\ context \in [Slots -> [ra : Resume \cup {NULL}, sp : AllStacks \cup {NULL}]]
  /\ ready \in Seq(Slots)
  /\ s_current \in Slots \cup {NULL}
  /\ cpu \in [pc : Resume \cup {"boot"}, sp : AllStacks \cup {boot_stack}]
  /\ frames \in [AllStacks -> Slots \cup {NULL}]
  /\ handles \in SUBSET Slots

Booting == cpu.pc = "boot"

(* No task is lost and none is queued twice: whatever the order of creates, *)
(* pushes, yields and exits, the ready queue holds, once each, exactly the  *)
(* Ready tasks other than idle and those their creator has yet to push      *)
(* (scheduler.cpp:39-61, run_queue.cpp:10-16).  It is also the contract the *)
(* intrusive run_node needs: a node is linked at most once.                 *)
ReadyQueueExact ==
  /\ NoDup(ready)
  /\ Members(ready) = (With("Ready") \ handles) \ {s_idle_task}

(* Once kmain has handed over, one task is Running, it is s_current, and    *)
(* the hart executes that task's code on that task's stack; a task that has *)
(* exited never gets control back into the loop behind sys_exit             *)
(* (scheduler.cpp:57-60, switch.S:20-56, bootstrap.cpp:8-14).               *)
CpuRunsCurrent ==
  ~Booting =>
    /\ s_current # NULL
    /\ With("Running") = {s_current}
    /\ cpu.sp = s_tasks[s_current].stack_base
    /\ cpu.pc \in {"trampoline", "body"}
    /\ cpu.pc = "body" => frames[cpu.sp] = s_current

(* Every task that is not running can be switched to: its saved context     *)
(* points into its own stack, and if it has run before, that stack still    *)
(* holds its own call frames, although stacks of dead tasks are given to    *)
(* new tasks (switch.S:26-54, task_manager.cpp:69-74, sys_exit.cpp:19).     *)
ResumeIntact ==
  \A s \in With("Ready") :
    /\ context[s].sp = s_tasks[s].stack_base
    /\ context[s].ra \in {"trampoline", "body"}
    /\ context[s].ra = "body" => frames[context[s].sp] = s

(* Idle never gives the hart up, so a task in the queue when idle runs will *)
(* never run: that can only be the one task that yielded into an empty      *)
(* queue (scheduler.cpp:44-46, 52-55, task_manager.cpp:18-22).              *)
IdleStrandsAtMostOne ==
  (s_current # NULL /\ s_current = s_idle_task) => Len(ready) <= 1

(* The parts the invariants above need besides each other: what holds      *)
(* before kmain hands over, that idle stays alive, that created tasks wait *)
(* Ready for their push, and that no two live tasks share a stack.         *)
BootPhase ==
  /\ Booting => s_current = NULL /\ With("Running") = {}
  /\ ~Booting => s_idle_task # NULL
  /\ s_idle_task = NULL => With("Empty") = Slots /\ ready = <<>> /\ handles = {}

IdleAlive ==
  s_idle_task # NULL => s_idle_task \in Live /\ s_idle_task \notin handles

HandlesReady == handles \subseteq With("Ready")

StacksApart ==
  /\ \A s \in Live : s_tasks[s].stack_base \in AllStacks
  /\ \A r, s \in Live : s_tasks[r].stack_base = s_tasks[s].stack_base => r = s

(* The inductive invariant. *)
IInv ==
  /\ TypeOK /\ ReadyQueueExact /\ CpuRunsCurrent /\ ResumeIntact
  /\ IdleStrandsAtMostOne
  /\ BootPhase /\ IdleAlive /\ HandlesReady /\ StacksApart

(* A Task* stays valid: once a slot is handed out it is never handed out    *)
(* again and keeps its id, entry and stack, even when the task is dead      *)
(* (task_manager.cpp:47-64; nothing sets a slot back to Empty).             *)
HandlesNeverDangle ==
  [][\A s \in Slots :
       s_tasks[s].state # "Empty" =>
         /\ s_tasks'[s].state # "Empty"
         /\ s_tasks'[s].id = s_tasks[s].id
         /\ s_tasks'[s].entry = s_tasks[s].entry
         /\ s_tasks'[s].stack_base = s_tasks[s].stack_base]_vars

(* What docs/ ask of a yield with nothing else to run: the only task keeps  *)
(* the hart.  The code switches it to idle (scheduler.cpp:44-60).           *)
LoneTaskKeepsRunning ==
  [][(/\ s_current \notin {NULL, s_idle_task}
      /\ ready = <<>>
      /\ s_tasks'[s_current].state # "Dead")
     => s_current' = s_current]_vars

(* Round robin: under cooperative tasks every queued task gets the hart,    *)
(* unless it is the one idle has stranded (scheduler.cpp:30-61).            *)
EveryReadyTaskRuns ==
  \A s \in Slots :
    s \in Members(ready) ~>
      \/ s_current = s
      \/ s_current = s_idle_task /\ ready = <<s>>
=============================================================================
