-------------------------- MODULE TaskSchedProofs --------------------------
(***************************************************************************)
(* The scheduler of TaskSched keeps its invariants for any number of task  *)
(* slots, entry functions and stacks.                                      *)
(***************************************************************************)
EXTENDS TaskSched, TLAPS

(* Taking the front off a queue without duplicates. *)
LEMMA PopFront ==
  ASSUME NEW q \in Seq(Slots), NoDup(q), q # <<>>
  PROVE  /\ Head(q) \in Slots /\ Head(q) \in Members(q)
         /\ Tail(q) \in Seq(Slots) /\ NoDup(Tail(q))
         /\ Len(Tail(q)) = Len(q) - 1
         /\ Members(Tail(q)) = Members(q) \ {Head(q)}
<1>1. Len(q) \in Nat /\ Len(q) > 0 /\ Head(q) = q[1] /\ q[1] \in Slots
  OBVIOUS
<1>2. /\ Tail(q) \in Seq(Slots) /\ Len(Tail(q)) = Len(q) - 1
      /\ \A i \in 1..(Len(q) - 1) : Tail(q)[i] = q[i + 1]
  BY <1>1
<1>3. NoDup(Tail(q))
  <2> SUFFICES ASSUME NEW i \in 1..(Len(q) - 1), NEW j \in 1..(Len(q) - 1),
                      q[i + 1] = q[j + 1]
               PROVE  i = j
    BY <1>2 DEF NoDup
  <2>1. i + 1 \in 1..Len(q) /\ j + 1 \in 1..Len(q)
    BY <1>1
  <2>2. i + 1 = j + 1
    BY <2>1 DEF NoDup
  <2> QED BY <2>2
<1>4. Members(Tail(q)) \subseteq Members(q) \ {Head(q)}
  <2> SUFFICES ASSUME NEW i \in 1..(Len(q) - 1)
               PROVE  q[i + 1] \in Members(q) /\ q[i + 1] # q[1]
    BY <1>1, <1>2 DEF Members
  <2>1. i + 1 \in 1..Len(q) /\ 1 \in 1..Len(q) /\ i + 1 # 1
    BY <1>1
  <2> QED BY <2>1 DEF Members, NoDup
<1>5. Members(q) \ {Head(q)} \subseteq Members(Tail(q))
  <2> SUFFICES ASSUME NEW i \in 1..Len(q), q[i] # q[1]
               PROVE  q[i] \in Members(Tail(q))
    BY <1>1 DEF Members
  <2>1. i - 1 \in 1..(Len(q) - 1) /\ (i - 1) + 1 = i
    BY <1>1
  <2>2. i - 1 \in 1..Len(Tail(q)) /\ Tail(q)[i - 1] = q[i]
    BY <1>2, <2>1
  <2> QED BY <2>2 DEF Members
<1>6. Head(q) \in Members(q)
  BY <1>1 DEF Members
<1>7. Members(Tail(q)) = Members(q) \ {Head(q)}
  BY <1>4, <1>5, Zenon
<1> QED BY <1>1, <1>2, <1>3, <1>6, <1>7

(* Appending a task that is not in the queue. *)
LEMMA PushBack ==
  ASSUME NEW q \in Seq(Slots), NEW s \in Slots, NoDup(q), s \notin Members(q)
  PROVE  /\ Append(q, s) \in Seq(Slots) /\ NoDup(Append(q, s))
         /\ Len(Append(q, s)) = Len(q) + 1
         /\ Members(Append(q, s)) = Members(q) \cup {s}
<1>1. /\ Len(q) \in Nat /\ Append(q, s) \in Seq(Slots)
      /\ Len(Append(q, s)) = Len(q) + 1 /\ Append(q, s)[Len(q) + 1] = s
      /\ \A i \in 1..Len(q) : Append(q, s)[i] = q[i]
  OBVIOUS
<1>2. \A i \in 1..(Len(q) + 1) : i \in 1..Len(q) \/ i = Len(q) + 1
  BY <1>1
<1>3. NoDup(Append(q, s))
  BY <1>1, <1>2 DEF NoDup, Members
<1>4. Members(Append(q, s)) = Members(q) \cup {s}
  BY <1>1, <1>2 DEF Members
<1> QED BY <1>1, <1>3, <1>4

(* The empty queue. *)
LEMMA EmptyQueue == <<>> \in Seq(Slots) /\ NoDup(<<>>) /\ Members(<<>>) = {} /\ Len(<<>>) = 0
BY DEF NoDup, Members

(* Behind bootstrap there is always a task to switch to: the front of the  *)
(* queue or idle.  It is Ready, it is not waiting for its push, and the    *)
(* rest of the queue is the queue without it.                              *)
LEMMA NextTaskFacts ==
  ASSUME TypeOK, ReadyQueueExact, IdleAlive, HandlesReady, s_idle_task # NULL,
         s_current # s_idle_task, With("Running") \subseteq {s_current}
  PROVE  /\ NextTask \in Slots /\ s_tasks[NextTask].state = "Ready"
         /\ NextTask \notin handles
         /\ Rest \in Seq(Slots) /\ NoDup(Rest)
         /\ Members(Rest) = Members(ready) \ {NextTask}
         /\ NextTask = s_idle_task => ready = <<>> /\ Rest = <<>>
<1>1. ready \in Seq(Slots) /\ NoDup(ready)
  BY DEF TypeOK, ReadyQueueExact
<1>2. s_idle_task \in Slots /\ s_tasks[s_idle_task].state = "Ready" /\ s_idle_task \notin handles
  BY DEF TypeOK, IdleAlive, Live, With
<1>3. CASE ready = <<>>
  <2>1. NextTask = s_idle_task /\ Rest = <<>>
    BY <1>3 DEF NextTask, OrIdle, Popped, Rest
  <2> QED BY <1>1, <1>2, <1>3, <2>1, EmptyQueue
<1>4. CASE ready # <<>>
  <2>1. Head(ready) \in Slots /\ Head(ready) \in Members(ready)
    BY <1>1, <1>4, PopFront
  <2>2. NextTask = Head(ready) /\ Rest = Tail(ready)
    BY <1>4, <2>1, SchedAssumption DEF NextTask, OrIdle, Popped, Rest
  <2>3. Head(ready) \in With("Ready") /\ Head(ready) \notin handles /\ Head(ready) # s_idle_task
    BY <2>1 DEF ReadyQueueExact
  <2> QED BY <1>1, <1>4, <2>1, <2>2, <2>3, PopFront DEF With
<1> QED BY <1>3, <1>4

(* A task body that calls the scheduler is s_current, it is not idle, and   *)
(* it runs on its own stack.                                                *)
LEMMA InTaskFacts ==
  ASSUME IInv, InTask
  PROVE  /\ s_current \in Slots /\ s_current # NULL
         /\ s_current # s_idle_task
         /\ s_idle_task # NULL
         /\ s_tasks[s_current].state = "Running"
         /\ With("Running") = {s_current}
         /\ cpu.sp = s_tasks[s_current].stack_base /\ cpu.sp \in AllStacks
         /\ frames[cpu.sp] = s_current
         /\ cpu.pc = "body"
<1>1. cpu.pc = "body" /\ ~Booting
  BY DEF InTask, Booting
<1>2. /\ s_current # NULL /\ With("Running") = {s_current}
      /\ cpu.sp = s_tasks[s_current].stack_base /\ frames[cpu.sp] = s_current
  BY <1>1 DEF IInv, CpuRunsCurrent
<1>3. s_current \in Slots /\ s_tasks[s_current].state = "Running"
  BY <1>2 DEF With
<1>4. s_idle_task # NULL /\ s_current # s_idle_task
  BY <1>1, <1>2 DEF InTask, IInv, BootPhase
<1>5. cpu.sp \in AllStacks
  BY <1>2, <1>3 DEF IInv, StacksApart, Live
<1> QED BY <1>1, <1>2, <1>3, <1>4, <1>5

(* What reschedule does when a running task calls it: left is the state it  *)
(* leaves that task in, back where the task would continue.                 *)
SwitchStep(left, back) ==
  /\ s_tasks' = [s \in Slots |->
       CASE s = NextTask  -> [s_tasks[s] EXCEPT !.state = "Running"]
         [] s = s_current /\ s # NextTask -> [s_tasks[s] EXCEPT !.state = left]
         [] OTHER         -> s_tasks[s]]
  /\ ready' = IF left = "Ready" THEN Append(Rest, s_current) ELSE Rest
  /\ s_current' = NextTask
  /\ context' = [context EXCEPT ![s_current] = [ra |-> back, sp |-> cpu.sp]]
  /\ cpu' = [pc |-> context[NextTask].ra, sp |-> context[NextTask].sp]
  /\ UNCHANGED <<s_next_id, s_idle_task, frames, handles>>

(* Handing the hart from the running task to the next one keeps the        *)
(* invariant.                                                              *)
LEMMA SwitchKeepsInv ==
  ASSUME IInv, InTask, NEW left, NEW back, SwitchStep(left, back),
         <<left, back>> \in {<<"Ready", "body">>, <<"Dead", "wfi_loop">>}
  PROVE  IInv'
<1> DEFINE p == s_current
           n == NextTask
<1>0. left \in {"Ready", "Dead"} /\ back \in Resume /\ (left = "Ready" => back = "body")
  BY DEF Resume
<1>1. /\ p \in Slots /\ p # NULL /\ p # s_idle_task /\ s_idle_task # NULL
      /\ s_tasks[p].state = "Running" /\ With("Running") = {p}
      /\ cpu.sp = s_tasks[p].stack_base /\ cpu.sp \in AllStacks /\ frames[cpu.sp] = p
  BY InTaskFacts
<1>2. /\ n \in Slots /\ s_tasks[n].state = "Ready" /\ n \notin handles
      /\ Rest \in Seq(Slots) /\ NoDup(Rest) /\ Members(Rest) = Members(ready) \ {n}
      /\ n = s_idle_task => ready = <<>> /\ Rest = <<>>
  BY <1>1, NextTaskFacts DEF IInv
<1>3. n # p /\ p \notin Members(Rest)
  BY <1>1, <1>2 DEF IInv, ReadyQueueExact, With
<1>4. \A s \in Slots :
        /\ s_tasks'[s].state = IF s = n THEN "Running"
                               ELSE IF s = p THEN left ELSE s_tasks[s].state
        /\ s_tasks'[s].stack_base = s_tasks[s].stack_base
  BY DEF SwitchStep, IInv, TypeOK
<1>5. /\ context[n].sp = s_tasks[n].stack_base
      /\ context[n].ra \in {"trampoline", "body"}
      /\ context[n].ra = "body" => frames[context[n].sp] = n
  BY <1>2 DEF IInv, ResumeIntact, With
<1>6. n \in Live /\ p \in Live /\ s_tasks[n].stack_base \in AllStacks
  BY <1>1, <1>2 DEF IInv, StacksApart, Live, With
<1>7. /\ ready' \in Seq(Slots) /\ NoDup(ready')
      /\ Members(ready') = (Members(ready) \ {n}) \cup (IF left = "Ready" THEN {p} ELSE {})
      /\ n = s_idle_task => Len(ready') <= 1
  <2>1. CASE left = "Ready"
    <3>1. ready' = Append(Rest, p)
      BY <2>1 DEF SwitchStep
    <3>2. n = s_idle_task => Len(Rest) = 0
      BY <1>2, EmptyQueue
    <3> QED BY <1>1, <1>2, <1>3, <2>1, <3>1, <3>2, PushBack
  <2>2. CASE left # "Ready"
    <3>1. ready' = Rest
      BY <2>2 DEF SwitchStep
    <3> QED BY <1>2, <2>2, <3>1, EmptyQueue
  <2> QED BY <2>1, <2>2
<1>8. TypeOK'
  <2>1. s_tasks' \in [Slots -> [id : Nat, state : State,
                            entry : Entries \cup {idle_task_entry, NULL},
                            stack_base : AllStacks \cup {NULL}]]
    <3> DEFINE Task == [id : Nat, state : State,
                        entry : Entries \cup {idle_task_entry, NULL},
                        stack_base : AllStacks \cup {NULL}]
    <3>1. \A s \in Slots : s_tasks[s] \in Task
      BY DEF IInv, TypeOK
    <3>2. \A t \in Task : /\ [t EXCEPT !.state = "Running"] \in Task
                          /\ [t EXCEPT !.state = left] \in Task
      BY <1>0 DEF State
    <3> SUFFICES s_tasks' \in [Slots -> Task]
      OBVIOUS
    <3> HIDE DEF Task
    <3> QED BY <3>1, <3>2 DEF SwitchStep
  <2>2. context' \in [Slots -> [ra : Resume \cup {NULL}, sp : AllStacks \cup {NULL}]]
    BY <1>0, <1>1 DEF SwitchStep, IInv, TypeOK
  <2>3. cpu' \in [pc : Resume \cup {"boot"}, sp : AllStacks \cup {boot_stack}]
    BY <1>5, <1>6 DEF SwitchStep, Resume
  <2> QED BY <1>2, <1>7, <2>1, <2>2, <2>3 DEF SwitchStep, IInv, TypeOK
<1>9. /\ With("Ready")' = (With("Ready") \ {n}) \cup (IF left = "Ready" THEN {p} ELSE {})
      /\ With("Running")' = {n}
      /\ With("Empty")' = With("Empty")
  BY <1>0, <1>1, <1>2, <1>3, <1>4 DEF With
<1>10. ReadyQueueExact'
  <2>1. p \notin handles
    BY <1>1 DEF IInv, HandlesReady, With
  <2>2. handles' = handles /\ s_idle_task' = s_idle_task
    BY DEF SwitchStep
  <2> QED BY <1>1, <1>7, <1>9, <2>1, <2>2 DEF IInv, ReadyQueueExact
<1>11. CpuRunsCurrent'
  <2>1. /\ s_current' = n /\ cpu'.sp = context[n].sp /\ cpu'.pc = context[n].ra
        /\ frames' = frames
    BY DEF SwitchStep
  <2>2. n # NULL
    BY <1>2, SchedAssumption
  <2> QED BY <1>2, <1>4, <1>5, <1>9, <2>1, <2>2 DEF CpuRunsCurrent
<1>12. ResumeIntact'
  <2> SUFFICES ASSUME NEW s \in With("Ready")'
               PROVE  /\ context'[s].sp = s_tasks'[s].stack_base
                      /\ context'[s].ra \in {"trampoline", "body"}
                      /\ context'[s].ra = "body" => frames'[context'[s].sp] = s
    BY DEF ResumeIntact
  <2>1. s \in Slots /\ frames' = frames
    BY DEF With, SwitchStep
  <2>2. CASE s = p /\ left = "Ready"
    <3>1. context'[s] = [ra |-> "body", sp |-> cpu.sp]
      BY <1>0, <2>1, <2>2 DEF SwitchStep, IInv, TypeOK
    <3> QED BY <1>1, <1>4, <2>1, <2>2, <3>1
  <2>3. CASE s # p
    <3>1. context'[s] = context[s] /\ s \in With("Ready")
      BY <1>9, <2>1, <2>3 DEF SwitchStep, IInv, TypeOK
    <3> QED BY <1>4, <2>1, <3>1 DEF IInv, ResumeIntact
  <2> QED BY <1>1, <1>9, <2>2, <2>3 DEF With
<1>13. IdleStrandsAtMostOne'
  BY <1>7 DEF SwitchStep, IdleStrandsAtMostOne
<1>14. BootPhase'
  <2>1. cpu'.pc # "boot" /\ s_idle_task' = s_idle_task
    BY <1>5 DEF SwitchStep
  <2> QED BY <1>1, <2>1 DEF BootPhase, Booting
<1>15. IdleAlive' /\ HandlesReady'
  <2>1. handles' = handles /\ s_idle_task' = s_idle_task
    BY DEF SwitchStep
  <2>2. s_idle_task \in With("Ready") \/ s_idle_task = p
    BY <1>1 DEF IInv, IdleAlive, Live
  <2>3. p \notin handles
    BY <1>1 DEF IInv, HandlesReady, With
  <2> QED BY <1>1, <1>2, <1>9, <2>1, <2>2, <2>3 DEF IInv, IdleAlive, HandlesReady, Live
<1>16. StacksApart'
  <2>1. \A s \in Live' : s \in Live /\ s \in Slots
    BY <1>6, <1>9 DEF Live, With
  <2> QED BY <1>4, <2>1 DEF IInv, StacksApart
<1> QED BY <1>8, <1>10, <1>11, <1>12, <1>13, <1>14, <1>15, <1>16 DEF IInv

(* Loading the next context: saving the caller's does not disturb it. *)
LEMMA SwitchLoadsNext ==
  ASSUME TypeOK, NEW p \in Slots, NEW n \in Slots, n # p, NEW ra, context_switch(p, n, ra)
  PROVE  /\ context' = [context EXCEPT ![p] = [ra |-> ra, sp |-> cpu.sp]]
         /\ cpu' = [pc |-> context[n].ra, sp |-> context[n].sp]
BY DEF context_switch, TypeOK

(* A yield requeues the running task. *)
LEMMA YieldSwitches ==
  ASSUME IInv, Yield
  PROVE  InTask /\ SwitchStep("Ready", "body")
<1> DEFINE p == s_current
           n == NextTask
<1>1. InTask
  BY DEF Yield
<1>2. /\ p \in Slots /\ p # NULL /\ p # s_idle_task /\ s_idle_task # NULL
      /\ s_tasks[p].state = "Running" /\ With("Running") = {p}
  BY <1>1, InTaskFacts
<1>3. n \in Slots /\ s_tasks[n].state = "Ready" /\ n # NULL /\ n # p
  BY <1>2, NextTaskFacts, SchedAssumption DEF IInv
<1>4. Requeues(s_tasks)
  BY <1>2 DEF Requeues
<1>5. /\ ready' = Append(Rest, p)
      /\ s_tasks' = [s \in Slots |->
            CASE s = n -> [s_tasks[s] EXCEPT !.state = "Running"]
              [] s = p /\ s # n /\ Requeues(s_tasks)
                              -> [s_tasks[s] EXCEPT !.state = "Ready"]
              [] OTHER        -> s_tasks[s]]
      /\ s_current' = n
      /\ context_switch(p, n, "body")
  BY <1>2, <1>3, <1>4 DEF Yield, yield, reschedule, switch_to, GoesBack, Returns, Enqueue
<1>6. /\ context' = [context EXCEPT ![p] = [ra |-> "body", sp |-> cpu.sp]]
      /\ cpu' = [pc |-> context[n].ra, sp |-> context[n].sp]
  BY <1>2, <1>3, <1>5, SwitchLoadsNext DEF IInv
<1>7. UNCHANGED <<s_next_id, s_idle_task, frames, handles>>
  BY DEF Yield
<1> QED BY <1>1, <1>4, <1>5, <1>6, <1>7 DEF SwitchStep

(* An exit does not. *)
LEMMA ExitSwitches ==
  ASSUME IInv, Exit
  PROVE  InTask /\ SwitchStep("Dead", "wfi_loop")
<1> DEFINE p == s_current
           n == NextTask
           T == [s_tasks EXCEPT ![p].state = "Dead"]
<1>1. InTask
  BY DEF Exit
<1>2. /\ p \in Slots /\ p # NULL /\ p # s_idle_task /\ s_idle_task # NULL
      /\ s_tasks[p].state = "Running" /\ With("Running") = {p}
  BY <1>1, InTaskFacts
<1>3. n \in Slots /\ s_tasks[n].state = "Ready" /\ n # NULL /\ n # p
  BY <1>2, NextTaskFacts, SchedAssumption DEF IInv
<1>4. /\ T[p] = [s_tasks[p] EXCEPT !.state = "Dead"] /\ T[p].state = "Dead"
      /\ \A s \in Slots : s # p => T[s] = s_tasks[s]
  BY <1>2 DEF IInv, TypeOK
<1>5. ~Requeues(T)
  BY <1>4 DEF Requeues
<1>6. reschedule(T, "wfi_loop")
  BY <1>2 DEF Exit, sys_exit, Exited
<1>7. /\ ready' = Rest
      /\ s_tasks' = [s \in Slots |->
            CASE s = n -> [T[s] EXCEPT !.state = "Running"]
              [] s = p /\ s # n /\ Requeues(T) -> [T[s] EXCEPT !.state = "Ready"]
              [] OTHER        -> T[s]]
      /\ s_current' = n
      /\ context_switch(p, n, "wfi_loop")
  <2> HIDE DEF T
  <2> QED BY <1>2, <1>3, <1>5, <1>6 DEF reschedule, switch_to, GoesBack, Returns
<1>8. s_tasks' = [s \in Slots |->
            CASE s = n -> [s_tasks[s] EXCEPT !.state = "Running"]
              [] s = p /\ s # n -> [s_tasks[s] EXCEPT !.state = "Dead"]
              [] OTHER -> s_tasks[s]]
  <2> HIDE DEF T
  <2> QED BY <1>3, <1>4, <1>5, <1>7
<1>9. /\ context' = [context EXCEPT ![p] = [ra |-> "wfi_loop", sp |-> cpu.sp]]
      /\ cpu' = [pc |-> context[n].ra, sp |-> context[n].sp]
  BY <1>2, <1>3, <1>7, SwitchLoadsNext DEF IInv
<1>10. UNCHANGED <<s_next_id, s_idle_task, frames, handles>>
  BY DEF Exit
<1> QED BY <1>1, <1>7, <1>8, <1>9, <1>10 DEF SwitchStep

(* Whoever calls create and push runs behind bootstrap, and is not idle. *)
LEMMA CallerFacts ==
  ASSUME IInv, Caller
  PROVE  s_idle_task # NULL /\ s_current # s_idle_task
<1>1. CASE InTask
  BY <1>1, InTaskFacts
<1>2. CASE InKmain /\ s_idle_task # NULL
  BY <1>2 DEF InKmain, IInv, BootPhase, Booting
<1> QED BY <1>1, <1>2 DEF Caller

(* A zeroed kernel satisfies the invariant. *)
LEMMA InitInv ==
  ASSUME Init
  PROVE  IInv
<1>1. \A s \in Slots : s_tasks[s] = Zeroed /\ s_tasks[s].state = "Empty"
  BY DEF Init, Zeroed
<1>2. With("Ready") = {} /\ With("Running") = {} /\ With("Empty") = Slots /\ Live = {}
  BY <1>1 DEF With, Live
<1>3. Zeroed \in [id : Nat, state : State, entry : Entries \cup {idle_task_entry, NULL},
                  stack_base : AllStacks \cup {NULL}]
  BY DEF Zeroed, State
<1>4. TypeOK
  BY <1>3 DEF Init, TypeOK
<1>5. Booting
  BY DEF Init, Booting
<1>6. s_idle_task = NULL /\ s_current = NULL /\ ready = <<>> /\ handles = {}
  BY DEF Init
<1> QED BY <1>2, <1>4, <1>5, <1>6, EmptyQueue
        DEF IInv, ReadyQueueExact, CpuRunsCurrent, ResumeIntact, IdleStrandsAtMostOne,
            BootPhase, IdleAlive, HandlesReady, StacksApart

(* bootstrap_scheduler fills one slot of an empty table with idle. *)
LEMMA BootstrapKeepsInv ==
  ASSUME IInv, Bootstrap
  PROVE  IInv'
<1> DEFINE cleared == [r \in Slots |-> [s_tasks[r] EXCEPT
                        !.state = "Empty", !.entry = NULL, !.stack_base = NULL]]
           Task == [id : Nat, state : State,
                    entry : Entries \cup {idle_task_entry, NULL},
                    stack_base : AllStacks \cup {NULL}]
           idle == [id |-> 1, state |-> "Ready", entry |-> idle_task_entry,
                    stack_base |-> s_idle_stack]
<1>1. PICK s \in Slots :
        /\ create_kernel_task(cleared, 1, s, idle_task_entry, s_idle_stack)
        /\ s_idle_task' = s
        /\ ready' = <<>> /\ s_current' = NULL
        /\ UNCHANGED <<cpu, frames, handles>>
  BY DEF Bootstrap, bootstrap_scheduler
<1>2. cpu.pc = "boot" /\ s_idle_task = NULL /\ handles = {}
  BY DEF Bootstrap, InKmain, IInv, BootPhase
<1>3. /\ cleared \in [Slots -> Task]
      /\ \A r \in Slots : cleared[r].state = "Empty"
  <2> DEFINE wipe(t) == [t EXCEPT !.state = "Empty", !.entry = NULL, !.stack_base = NULL]
  <2>1. \A r \in Slots : s_tasks[r] \in Task
    BY DEF IInv, TypeOK
  <2>2. \A t \in Task : wipe(t) \in Task /\ wipe(t).state = "Empty"
    BY DEF State
  <2>3. cleared = [r \in Slots |-> wipe(s_tasks[r])]
    OBVIOUS
  <2> HIDE DEF cleared, Task, wipe
  <2> QED BY <2>1, <2>2, <2>3
<1>4. /\ s_tasks' = [cleared EXCEPT ![s] = idle]
      /\ s_next_id' = 1 + 1
      /\ context' = [context EXCEPT ![s] = [ra |-> "trampoline", sp |-> s_idle_stack]]
  BY <1>1 DEF create_kernel_task
<1>5. idle \in Task /\ idle.state = "Ready" /\ idle.stack_base = s_idle_stack
  BY DEF State, AllStacks
<1> HIDE DEF cleared, Task, idle
<1>6. /\ s_tasks' \in [Slots -> Task] /\ s_tasks'[s] = idle
      /\ \A r \in Slots : r # s => s_tasks'[r].state = "Empty"
  BY <1>3, <1>4, <1>5
<1>7. With("Ready")' = {s} /\ With("Running")' = {} /\ Live' = {s}
  BY <1>5, <1>6 DEF With, Live
<1>8. context'[s] = [ra |-> "trampoline", sp |-> s_idle_stack]
  BY <1>4 DEF IInv, TypeOK
<1>9. s # NULL /\ cpu' = cpu /\ Booting'
  BY <1>1, <1>2, SchedAssumption DEF Booting
<1>10. TypeOK'
  <2>1. context' \in [Slots -> [ra : Resume \cup {NULL}, sp : AllStacks \cup {NULL}]]
    BY <1>4 DEF IInv, TypeOK, Resume, AllStacks
  <2> QED BY <1>1, <1>4, <1>6, <1>9, <2>1, EmptyQueue DEF IInv, TypeOK, Task
<1>11. ReadyQueueExact' /\ IdleStrandsAtMostOne'
  BY <1>1, <1>2, <1>7, EmptyQueue DEF ReadyQueueExact, IdleStrandsAtMostOne
<1>12. CpuRunsCurrent' /\ BootPhase'
  BY <1>1, <1>7, <1>9 DEF CpuRunsCurrent, BootPhase
<1>13. ResumeIntact'
  BY <1>5, <1>6, <1>7, <1>8 DEF ResumeIntact
<1>14. IdleAlive' /\ HandlesReady'
  BY <1>1, <1>2, <1>7 DEF IdleAlive, HandlesReady
<1>15. StacksApart'
  BY <1>5, <1>6, <1>7 DEF StacksApart, AllStacks
<1> QED BY <1>10, <1>11, <1>12, <1>13, <1>14, <1>15 DEF IInv

(* Creating a task fills an Empty slot and leaves every other task alone. *)
LEMMA CreateKeepsInv ==
  ASSUME IInv, NEW e \in Entries, NEW k \in Stacks, Create(e, k)
  PROVE  IInv'
<1> DEFINE Task == [id : Nat, state : State,
                    entry : Entries \cup {idle_task_entry, NULL},
                    stack_base : AllStacks \cup {NULL}]
           new == [id |-> s_next_id, state |-> "Ready", entry |-> e, stack_base |-> k]
<1>1. PICK s \in Slots :
        /\ FirstEmpty(s_tasks, s)
        /\ create_kernel_task(s_tasks, s_next_id, s, e, k)
        /\ handles' = handles \cup {s}
        /\ UNCHANGED <<s_idle_task, ready, s_current, cpu, frames>>
  BY DEF Create
<1>2. s_idle_task # NULL /\ s_current # s_idle_task
  BY CallerFacts DEF Create
<1>3. \A r \in Live : s_tasks[r].stack_base # k
  BY DEF Create
<1>4. s_tasks[s].state = "Empty" /\ s \notin Live /\ s \notin handles /\ s # s_idle_task
  BY <1>1, <1>2 DEF FirstEmpty, Live, With, IInv, HandlesReady, IdleAlive
<1>5. /\ s_tasks' = [s_tasks EXCEPT ![s] = new]
      /\ s_next_id' = s_next_id + 1
      /\ context' = [context EXCEPT ![s] = [ra |-> "trampoline", sp |-> k]]
  BY <1>1 DEF create_kernel_task
<1>6. /\ new \in Task /\ new.state = "Ready" /\ new.stack_base = k /\ k \in AllStacks
      /\ s_tasks \in [Slots -> Task]
  BY DEF IInv, TypeOK, State, AllStacks
<1> HIDE DEF Task, new
<1>7. /\ s_tasks' \in [Slots -> Task] /\ s_tasks'[s] = new
      /\ \A r \in Slots : r # s => s_tasks'[r] = s_tasks[r]
  BY <1>5, <1>6
<1>8. /\ With("Ready")' = With("Ready") \cup {s}
      /\ With("Running")' = With("Running")
      /\ Live' = Live \cup {s}
  BY <1>4, <1>6, <1>7 DEF With, Live
<1>9. /\ context'[s] = [ra |-> "trampoline", sp |-> k]
      /\ \A r \in Slots : r # s => context'[r] = context[r]
  BY <1>5 DEF IInv, TypeOK
<1>10. TypeOK'
  <2>1. context' \in [Slots -> [ra : Resume \cup {NULL}, sp : AllStacks \cup {NULL}]]
    BY <1>5, <1>6 DEF IInv, TypeOK, Resume
  <2> QED BY <1>1, <1>5, <1>7, <2>1 DEF IInv, TypeOK, Task
<1>11. ReadyQueueExact' /\ IdleStrandsAtMostOne'
  BY <1>1, <1>4, <1>8 DEF IInv, ReadyQueueExact, IdleStrandsAtMostOne, Live
<1>12. CpuRunsCurrent'
  <2> SUFFICES ASSUME ~Booting PROVE CpuRunsCurrent'
    BY <1>1 DEF CpuRunsCurrent, Booting
  <2>1. s_current # s /\ s_current \in Slots
    BY <1>4 DEF IInv, CpuRunsCurrent, With, Live
  <2> QED BY <1>1, <1>7, <1>8, <2>1 DEF IInv, CpuRunsCurrent
<1>13. ResumeIntact'
  <2>1. \A r \in With("Ready") : r # s /\ r \in Slots
    BY <1>4 DEF With, Live
  <2> QED BY <1>1, <1>6, <1>7, <1>8, <1>9, <2>1 DEF IInv, ResumeIntact
<1>14. BootPhase' /\ IdleAlive' /\ HandlesReady'
  BY <1>1, <1>2, <1>4, <1>8 DEF IInv, BootPhase, Booting, IdleAlive, HandlesReady
<1>15. StacksApart'
  <2>1. \A r \in Live : r # s /\ r \in Slots
    BY <1>4 DEF With, Live
  <2> QED BY <1>3, <1>6, <1>7, <1>8, <2>1 DEF IInv, StacksApart
<1> QED BY <1>10, <1>11, <1>12, <1>13, <1>14, <1>15 DEF IInv

(* Pushing a created task links it for the first time. *)
LEMMA PushKeepsInv ==
  ASSUME IInv, NEW s \in Slots, Push(s)
  PROVE  IInv'
<1>1. /\ s \in handles /\ handles' = handles \ {s}
      /\ ready' = Append(ready, s)
      /\ s_tasks' = [s_tasks EXCEPT ![s].state = "Ready"]
      /\ UNCHANGED <<s_next_id, s_idle_task, context, s_current, cpu, frames>>
  BY DEF Push, push, Enqueue
<1>2. s_idle_task # NULL /\ s_current # s_idle_task
  BY CallerFacts DEF Push
<1>3. s_tasks[s].state = "Ready" /\ s # s_idle_task
  BY <1>1, <1>2 DEF IInv, HandlesReady, IdleAlive, With
<1>4. s_tasks' = s_tasks
  BY <1>1, <1>3 DEF IInv, TypeOK
<1>5. ready \in Seq(Slots) /\ NoDup(ready) /\ s \notin Members(ready)
  BY <1>1 DEF IInv, TypeOK, ReadyQueueExact
<1>6. ready' \in Seq(Slots) /\ NoDup(ready') /\ Members(ready') = Members(ready) \cup {s}
  BY <1>1, <1>5, PushBack
<1>7. \A st : With(st)' = With(st)
  BY <1>4 DEF With
<1>8. TypeOK'
  BY <1>1, <1>4, <1>6 DEF IInv, TypeOK
<1>9. ReadyQueueExact'
  <2>1. s \in With("Ready")
    BY <1>3 DEF With
  <2> QED BY <1>1, <1>3, <1>6, <1>7, <2>1 DEF IInv, ReadyQueueExact
<1>10. CpuRunsCurrent' /\ ResumeIntact' /\ StacksApart'
  BY <1>1, <1>4, <1>7 DEF IInv, CpuRunsCurrent, ResumeIntact, StacksApart, Booting, Live
<1>11. IdleStrandsAtMostOne' /\ BootPhase' /\ IdleAlive' /\ HandlesReady'
  BY <1>1, <1>2, <1>7 DEF IInv, IdleStrandsAtMostOne, BootPhase, Booting, IdleAlive,
                          HandlesReady, Live
<1> QED BY <1>8, <1>9, <1>10, <1>11 DEF IInv

(* start hands the hart to the first task, or to idle. *)
LEMMA StartKeepsInv ==
  ASSUME IInv, Start
  PROVE  IInv'
<1> DEFINE n == NextTask
           Task == [id : Nat, state : State,
                    entry : Entries \cup {idle_task_entry, NULL},
                    stack_base : AllStacks \cup {NULL}]
<1>1. /\ ready' = Rest /\ s_current' = n
      /\ s_tasks' = [s_tasks EXCEPT ![n].state = "Running"]
      /\ cpu' = [pc |-> context[n].ra, sp |-> context[n].sp]
      /\ UNCHANGED <<s_next_id, s_idle_task, context, frames, handles>>
  BY DEF Start, start, start_with
<1>2. s_idle_task # NULL /\ s_current = NULL /\ With("Running") = {}
  BY DEF Start, InKmain, IInv, BootPhase, Booting
<1>3. /\ n \in Slots /\ s_tasks[n].state = "Ready" /\ n \notin handles
      /\ Rest \in Seq(Slots) /\ NoDup(Rest) /\ Members(Rest) = Members(ready) \ {n}
      /\ n = s_idle_task => ready = <<>> /\ Rest = <<>>
  BY <1>2, NextTaskFacts DEF IInv
<1>4. n # NULL
  BY <1>3, SchedAssumption
<1>5. /\ s_tasks' \in [Slots -> Task]
      /\ \A s \in Slots :
           /\ s_tasks'[s].state = IF s = n THEN "Running" ELSE s_tasks[s].state
           /\ s_tasks'[s].stack_base = s_tasks[s].stack_base
  BY <1>1, <1>3, ZenonT(40) DEF IInv, TypeOK, State
<1> HIDE DEF Task
<1>6. /\ With("Ready")' = With("Ready") \ {n}
      /\ With("Running")' = {n}
      /\ Live' = Live
  BY <1>2, <1>3, <1>5 DEF With, Live
<1>7. /\ context[n].sp = s_tasks[n].stack_base
      /\ context[n].ra \in {"trampoline", "body"}
      /\ context[n].ra = "body" => frames[context[n].sp] = n
      /\ s_tasks[n].stack_base \in AllStacks
  BY <1>3 DEF IInv, ResumeIntact, StacksApart, Live, With
<1>8. TypeOK'
  <2>1. cpu' \in [pc : Resume \cup {"boot"}, sp : AllStacks \cup {boot_stack}]
    BY <1>1, <1>7 DEF Resume
  <2> QED BY <1>1, <1>3, <1>5, <2>1 DEF IInv, TypeOK, Task
<1>9. ReadyQueueExact' /\ IdleStrandsAtMostOne'
  BY <1>1, <1>3, <1>6, EmptyQueue DEF IInv, ReadyQueueExact, IdleStrandsAtMostOne
<1>10. CpuRunsCurrent'
  BY <1>1, <1>3, <1>4, <1>5, <1>6, <1>7 DEF CpuRunsCurrent
<1>11. ResumeIntact' /\ StacksApart'
  <2>1. \A s \in Live : s \in Slots
    BY DEF Live, With
  <2> QED BY <1>1, <1>5, <1>6, <2>1 DEF IInv, ResumeIntact, StacksApart, Live
<1>12. BootPhase' /\ IdleAlive' /\ HandlesReady'
  <2>1. cpu'.pc # "boot"
    BY <1>1, <1>7
  <2> QED BY <1>1, <1>2, <1>3, <1>6, <2>1
          DEF IInv, BootPhase, Booting, IdleAlive, HandlesReady
<1> QED BY <1>8, <1>9, <1>10, <1>11, <1>12 DEF IInv

(* The first entry of a task puts its frames on its own stack, which no    *)
(* other live task has.                                                    *)
LEMMA EnterKeepsInv ==
  ASSUME IInv, EnterTask
  PROVE  IInv'
<1> DEFINE p == s_current
           k == cpu.sp
<1>1. /\ cpu.pc = "trampoline" /\ ~Booting
      /\ cpu' = [cpu EXCEPT !.pc = "body"]
      /\ frames' = [frames EXCEPT ![k] = p]
      /\ UNCHANGED <<s_tasks, s_next_id, s_idle_task, context, ready, s_current, handles>>
  BY DEF EnterTask, task_bootstrap_entry, Booting
<1>2. /\ p # NULL /\ With("Running") = {p} /\ k = s_tasks[p].stack_base
  BY <1>1 DEF IInv, CpuRunsCurrent
<1>3. p \in Slots /\ p \in Live /\ k \in AllStacks /\ p \notin With("Ready")
  BY <1>2 DEF IInv, StacksApart, Live, With
<1>4. \A st : With(st)' = With(st)
  BY <1>1 DEF With
<1>5. cpu'.pc = "body" /\ cpu'.sp = k
  BY <1>1 DEF IInv, TypeOK
<1>6. /\ frames'[k] = p
      /\ \A j \in AllStacks : j # k => frames'[j] = frames[j]
  BY <1>1, <1>3 DEF IInv, TypeOK
<1>7. TypeOK'
  BY <1>1, <1>3 DEF IInv, TypeOK, Resume
<1>8. CpuRunsCurrent'
  BY <1>1, <1>2, <1>4, <1>5, <1>6 DEF CpuRunsCurrent
<1>9. ResumeIntact'
  <2> SUFFICES ASSUME NEW s \in With("Ready")
               PROVE  /\ context[s].sp = s_tasks[s].stack_base
                      /\ context[s].ra \in {"trampoline", "body"}
                      /\ context[s].ra = "body" => frames'[context[s].sp] = s
    BY <1>1, <1>4 DEF ResumeIntact
  <2>1. /\ context[s].sp = s_tasks[s].stack_base
        /\ context[s].ra \in {"trampoline", "body"}
        /\ context[s].ra = "body" => frames[context[s].sp] = s
    BY DEF IInv, ResumeIntact
  <2>2. s_tasks[s].stack_base # k /\ s_tasks[s].stack_base \in AllStacks
    BY <1>2, <1>3 DEF IInv, StacksApart, Live
  <2> QED BY <1>6, <2>1, <2>2
<1>10. ReadyQueueExact' /\ IdleStrandsAtMostOne' /\ IdleAlive' /\ HandlesReady' /\ StacksApart'
  BY <1>1, <1>4 DEF IInv, ReadyQueueExact, IdleStrandsAtMostOne, IdleAlive, HandlesReady,
                    StacksApart, Live
<1>11. BootPhase'
  BY <1>1, <1>4, <1>5 DEF IInv, BootPhase, Booting
<1> QED BY <1>7, <1>8, <1>9, <1>10, <1>11 DEF IInv

(* Every step of the kernel keeps the invariant. *)
LEMMA NextKeepsInv ==
  ASSUME IInv, [Next]_vars
  PROVE  IInv'
<1>1. CASE Bootstrap
  BY <1>1, BootstrapKeepsInv
<1>2. CASE Start
  BY <1>2, StartKeepsInv
<1>3. CASE EnterTask
  BY <1>3, EnterKeepsInv
<1>4. CASE Yield
  BY <1>4, YieldSwitches, SwitchKeepsInv
<1>5. CASE Exit
  BY <1>5, ExitSwitches, SwitchKeepsInv
<1>6. ASSUME NEW e \in Entries, NEW k \in Stacks, Create(e, k)
      PROVE  IInv'
  BY <1>6, CreateKeepsInv
<1>7. ASSUME NEW s \in Slots, Push(s)
      PROVE  IInv'
  BY <1>7, PushKeepsInv
<1>8. CASE UNCHANGED vars
  BY <1>8 DEF vars, IInv, TypeOK, ReadyQueueExact, CpuRunsCurrent, ResumeIntact,
              IdleStrandsAtMostOne, BootPhase, IdleAlive, HandlesReady, StacksApart,
              Booting, Live, With
<1>9. CASE IdleWfi
  BY <1>8, <1>9 DEF IdleWfi
<1>10. ASSUME NEW k \in Stacks \cup {NULL}, CreateFails(k)
       PROVE  IInv'
  BY <1>8, <1>10 DEF CreateFails
<1> QED BY <1>1, <1>2, <1>3, <1>4, <1>5, <1>6, <1>7, <1>8, <1>9, <1>10 DEF Next

LEMMA Inductive == Spec => []IInv
<1>1. Init => IInv
  BY InitInv
<1>2. IInv /\ [Next]_vars => IInv'
  BY NextKeepsInv
<1> QED BY <1>1, <1>2, PTL DEF Spec

(* The tables, registers and queue of the scheduler keep their types.      *)
THEOREM TypeCorrect == Spec => []TypeOK
<1>1. IInv => TypeOK
  BY DEF IInv
<1> QED BY <1>1, Inductive, PTL

(* For any number of tasks, no task is lost and none is queued twice: the  *)
(* ready queue is exactly the set of tasks that should be in it.           *)
THEOREM QueueExact == Spec => []ReadyQueueExact
<1>1. IInv => ReadyQueueExact
  BY DEF IInv
<1> QED BY <1>1, Inductive, PTL

(* For any number of tasks and stacks, the hart executes s_current's code  *)
(* on s_current's stack, and a dead task never regains control.            *)
THEOREM CurrentRuns == Spec => []CpuRunsCurrent
<1>1. IInv => CpuRunsCurrent
  BY DEF IInv
<1> QED BY <1>1, Inductive, PTL

(* For any number of tasks and stacks, a task that is switched out finds   *)
(* its own frames on its own stack when it is switched in again.           *)
THEOREM ContextsIntact == Spec => []ResumeIntact
<1>1. IInv => ResumeIntact
  BY DEF IInv
<1> QED BY <1>1, Inductive, PTL

(* However many tasks there are, idle leaves at most one of them stranded. *)
THEOREM IdleStrands == Spec => []IdleStrandsAtMostOne
<1>1. IInv => IdleStrandsAtMostOne
  BY DEF IInv
<1> QED BY <1>1, Inductive, PTL

(* The part of a slot that identifies its task, kept while it is in use. *)
LEMMA StepKeepsSlots ==
  ASSUME IInv, [Next]_vars, NEW s \in Slots, s_tasks[s].state # "Empty"
  PROVE  /\ s_tasks'[s].state # "Empty"
         /\ s_tasks'[s].id = s_tasks[s].id
         /\ s_tasks'[s].entry = s_tasks[s].entry
         /\ s_tasks'[s].stack_base = s_tasks[s].stack_base
<1>0. s_tasks \in [Slots -> [id : Nat, state : State,
                     entry : Entries \cup {idle_task_entry, NULL},
                     stack_base : AllStacks \cup {NULL}]]
  BY DEF IInv, TypeOK
<1>1. CASE Bootstrap
  BY <1>1 DEF Bootstrap, IInv, BootPhase, With
<1>2. CASE Start
  <2>1. s_tasks' = [s_tasks EXCEPT ![NextTask].state = "Running"]
    BY <1>2 DEF Start, start, start_with
  <2> QED BY <1>0, <2>1
<1>3. CASE EnterTask
  BY <1>3 DEF EnterTask, task_bootstrap_entry
<1>4. ASSUME NEW left \in {"Ready", "Dead"}, NEW back, SwitchStep(left, back)
      PROVE  /\ s_tasks'[s].state # "Empty"
             /\ s_tasks'[s].id = s_tasks[s].id
             /\ s_tasks'[s].entry = s_tasks[s].entry
             /\ s_tasks'[s].stack_base = s_tasks[s].stack_base
  BY <1>0, <1>4 DEF SwitchStep
<1>5. CASE Yield
  BY <1>4, <1>5, YieldSwitches
<1>6. CASE Exit
  BY <1>4, <1>6, ExitSwitches
<1>7. ASSUME NEW e \in Entries, NEW k \in Stacks, Create(e, k)
      PROVE  s_tasks'[s] = s_tasks[s]
  <2>1. PICK r \in Slots : FirstEmpty(s_tasks, r)
                           /\ create_kernel_task(s_tasks, s_next_id, r, e, k)
    BY <1>7 DEF Create
  <2>2. r # s
    BY <2>1 DEF FirstEmpty
  <2> QED BY <1>0, <2>1, <2>2 DEF create_kernel_task
<1>8. ASSUME NEW r \in Slots, Push(r)
      PROVE  /\ s_tasks'[s].state # "Empty"
             /\ s_tasks'[s].id = s_tasks[s].id
             /\ s_tasks'[s].entry = s_tasks[s].entry
             /\ s_tasks'[s].stack_base = s_tasks[s].stack_base
  BY <1>0, <1>8 DEF Push, push
<1>9. CASE UNCHANGED vars
  BY <1>9 DEF vars
<1>10. CASE IdleWfi \/ \E k \in Stacks \cup {NULL} : CreateFails(k)
  BY <1>9, <1>10 DEF IdleWfi, CreateFails
<1> QED BY <1>1, <1>2, <1>3, <1>5, <1>6, <1>7, <1>8, <1>9, <1>10 DEF Next

(* A Task* handed out by create_kernel_task names the same task for ever.  *)
THEOREM HandlesStay == Spec => HandlesNeverDangle
<1> DEFINE Kept == \A s \in Slots :
                     s_tasks[s].state # "Empty" =>
                       /\ s_tasks'[s].state # "Empty"
                       /\ s_tasks'[s].id = s_tasks[s].id
                       /\ s_tasks'[s].entry = s_tasks[s].entry
                       /\ s_tasks'[s].stack_base = s_tasks[s].stack_base
<1>1. IInv /\ [Next]_vars => [Kept]_vars
  BY StepKeepsSlots
<1> QED BY <1>1, Inductive, PTL DEF Spec, HandlesNeverDangle
=============================================================================
