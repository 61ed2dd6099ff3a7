--------------------------- MODULE RunNodesProofs ---------------------------
(***************************************************************************)
(* The ready queue for any number of tasks: it is fair, and it lies in     *)
(* memory as the links of the run_nodes.                                   *)
(***************************************************************************)
EXTENDS RunNodes, TaskSchedProofs

(* A queue that grew by at most one task at the back. *)
LEMMA GrownQueue ==
  ASSUME NEW r \in Seq(Slots), NEW p \in Slots, NEW q,
         q = r \/ q = Append(r, p)
  PROVE  /\ q \in Seq(Slots) /\ Len(q) \in {Len(r), Len(r) + 1}
         /\ \A i \in 1..Len(r) : q[i] = r[i]
         /\ Len(q) = Len(r) + 1 => q[Len(q)] = p /\ q # r
<1>0. Len(r) \in Nat
  OBVIOUS
<1>1. CASE q = r
  BY <1>0, <1>1
<1>2. CASE q = Append(r, p)
  <2>1. /\ q \in Seq(Slots) /\ Len(q) = Len(r) + 1 /\ q[Len(r) + 1] = p
        /\ \A i \in 1..Len(r) : q[i] = r[i]
    BY <1>2
  <2> QED BY <1>0, <2>1
<1> QED BY <1>1, <1>2

(* A step that takes the next task off the queue, gives it the hart, and    *)
(* perhaps queues the previous one.                                         *)
LEMMA DispatchIsFair ==
  ASSUME TypeOK, ReadyQueueExact, NoSecondTurnFirst,
         NEW p \in Slots,
         ready' = Rest \/ (p \notin Members(ready) /\ ready' = Append(Rest, p)),
         s_current' = NextTask, NextTask \in Slots,
         Rest \in Seq(Slots), Members(Rest) = Members(ready) \ {NextTask},
         served' = [s \in Slots |-> Served(s)]
  PROVE  NoSecondTurnFirst'
<1> DEFINE n == NextTask
           q == ready'
<1>1. /\ Len(Rest) \in Nat /\ \A i \in 1..Len(Rest) : Rest[i] \in Slots
      /\ \A i \in 1..Len(Rest) : Rest[i] \in Members(ready) /\ Rest[i] # n
  <2>1. \A i \in 1..Len(Rest) : Rest[i] \in Members(Rest)
    BY DEF Members
  <2>2. Len(Rest) \in Nat /\ \A i \in 1..Len(Rest) : Rest[i] \in Slots
    OBVIOUS
  <2> QED BY <2>1, <2>2
<1>2. /\ q \in Seq(Slots) /\ Len(q) \in {Len(Rest), Len(Rest) + 1}
      /\ \A i \in 1..Len(Rest) : q[i] = Rest[i]
      /\ Len(q) = Len(Rest) + 1 => q[Len(q)] = p /\ p \notin Members(ready)
  BY GrownQueue
<1>3. Dispatched \subseteq {n}
  BY DEF Dispatched
<1>4. \A s \in Slots : served'[s] = Served(s)
  OBVIOUS
<1>5. \A j \in 1..Len(Rest) : \A i \in 1..(j - 1) : Rest[i] \notin served[Rest[j]]
  <2>1. CASE ready = <<>>
    BY <2>1, EmptyQueue DEF Rest
  <2>2. CASE ready # <<>>
    <3>1. /\ ready \in Seq(Slots) /\ Rest = Tail(ready) /\ Len(Rest) = Len(ready) - 1
          /\ \A i \in 1..Len(Rest) : Rest[i] = ready[i + 1]
      BY <2>2 DEF TypeOK, Rest
    <3> SUFFICES ASSUME NEW j \in 1..Len(Rest), NEW i \in 1..(j - 1)
                 PROVE  Rest[i] \notin served[Rest[j]]
      OBVIOUS
    <3>2. j + 1 \in 1..Len(ready) /\ i + 1 \in 1..((j + 1) - 1) /\ i \in 1..Len(Rest)
      BY <1>1, <3>1
    <3>3. ready[i + 1] \notin served[ready[j + 1]]
      BY <3>2 DEF NoSecondTurnFirst
    <3> QED BY <3>1, <3>2, <3>3
  <2> QED BY <2>1, <2>2
<1> SUFFICES ASSUME NEW j \in 1..Len(q), NEW i \in 1..(j - 1)
             PROVE  q[i] \notin served'[q[j]]
  BY DEF NoSecondTurnFirst
<1>6. /\ i \in 1..Len(Rest) /\ q[i] = Rest[i] /\ q[i] # n
      /\ j \in 1..Len(q) /\ q[j] \in Slots /\ q[j] \in Members(ready)'
  BY <1>1, <1>2 DEF Members
<1>7. CASE j \in 1..Len(Rest)
  <2>1. q[j] = Rest[j] /\ q[j] \in Members(ready)
    BY <1>1, <1>2, <1>7
  <2>2. served'[q[j]] = served[q[j]] \cup Dispatched
    BY <1>4, <1>6, <2>1 DEF Served
  <2> QED BY <1>3, <1>5, <1>6, <1>7, <2>1, <2>2
<1>8. CASE j = Len(Rest) + 1
  <2>1. q[j] = p /\ q[j] \notin Members(ready)
    BY <1>1, <1>2, <1>8
  <2>2. served'[q[j]] = Dispatched
    BY <1>4, <1>6, <2>1 DEF Served
  <2> QED BY <1>3, <1>6, <2>2
<1> QED BY <1>1, <1>2, <1>7, <1>8

(* A step that gives the hart to nobody else and perhaps queues a task. *)
LEMMA QuietStepIsFair ==
  ASSUME TypeOK, NoSecondTurnFirst, NEW p \in Slots,
         ready' = ready \/ (p \notin Members(ready) /\ ready' = Append(ready, p)),
         s_current' = s_current,
         served' = [s \in Slots |-> Served(s)]
  PROVE  NoSecondTurnFirst'
<1> DEFINE q == ready'
<1>1. /\ Len(ready) \in Nat /\ \A i \in 1..Len(ready) : ready[i] \in Slots
      /\ \A i \in 1..Len(ready) : ready[i] \in Members(ready)
  BY DEF TypeOK, Members
<1>2. /\ q \in Seq(Slots) /\ Len(q) \in {Len(ready), Len(ready) + 1}
      /\ \A i \in 1..Len(ready) : q[i] = ready[i]
      /\ Len(q) = Len(ready) + 1 => q[Len(q)] = p /\ p \notin Members(ready)
  <2>1. ready \in Seq(Slots)
    BY DEF TypeOK
  <2> QED BY <2>1, GrownQueue
<1>3. Dispatched = {} /\ \A s \in Slots : served'[s] = Served(s)
  BY DEF Dispatched
<1> SUFFICES ASSUME NEW j \in 1..Len(q), NEW i \in 1..(j - 1)
             PROVE  q[i] \notin served'[q[j]]
  BY DEF NoSecondTurnFirst
<1>4. i \in 1..Len(ready) /\ q[i] = ready[i] /\ q[j] \in Slots /\ q[j] \in Members(ready)'
  BY <1>1, <1>2 DEF Members
<1>5. CASE j \in 1..Len(ready)
  <2>1. q[j] = ready[j] /\ q[j] \in Members(ready)
    BY <1>1, <1>2, <1>5
  <2>2. served'[q[j]] = served[q[j]]
    BY <1>3, <1>4, <2>1 DEF Served
  <2> QED BY <1>4, <1>5, <2>1, <2>2 DEF NoSecondTurnFirst
<1>6. CASE j = Len(ready) + 1
  <2>1. q[j] = p /\ q[j] \notin Members(ready)
    BY <1>1, <1>2, <1>6
  <2>2. served'[q[j]] = {}
    BY <1>3, <1>4, <2>1 DEF Served
  <2> QED BY <2>2
<1> QED BY <1>1, <1>2, <1>5, <1>6

(* Every step keeps the queue fair. *)
LEMMA StepIsFair ==
  ASSUME IInv, NoSecondTurnFirst, [HNext]_hvars
  PROVE  NoSecondTurnFirst'
<1>0. TypeOK /\ ReadyQueueExact /\ 1 \in Slots
  BY SchedAssumption DEF IInv, Slots
<1>1. CASE UNCHANGED hvars
  BY <1>1 DEF hvars, vars, NoSecondTurnFirst
<1> SUFFICES ASSUME Next, served' = [s \in Slots |-> Served(s)]
             PROVE  NoSecondTurnFirst'
  BY <1>1 DEF HNext
<1>2. ASSUME ready' = ready, s_current' = s_current
      PROVE  NoSecondTurnFirst'
  BY <1>0, <1>2, QuietStepIsFair
<1>3. CASE Bootstrap
  <2>1. ready' = <<>>
    BY <1>3 DEF Bootstrap, bootstrap_scheduler
  <2> QED BY <2>1, EmptyQueue DEF NoSecondTurnFirst
<1>4. CASE Start
  <2>1. ready' = Rest /\ s_current' = NextTask
    BY <1>4 DEF Start, start, start_with
  <2>2. s_idle_task # NULL /\ s_current = NULL /\ With("Running") = {}
    BY <1>4 DEF Start, InKmain, IInv, BootPhase, Booting
  <2>3. NextTask \in Slots /\ Rest \in Seq(Slots) /\ Members(Rest) = Members(ready) \ {NextTask}
    BY <2>2, NextTaskFacts DEF IInv
  <2> QED BY <1>0, <2>1, <2>3, DispatchIsFair
<1>5. ASSUME NEW left, NEW back, InTask, SwitchStep(left, back)
      PROVE  NoSecondTurnFirst'
  <2>1. /\ ready' = Rest \/ ready' = Append(Rest, s_current)
        /\ s_current' = NextTask
    BY <1>5 DEF SwitchStep
  <2>2. /\ s_current \in Slots /\ s_current # s_idle_task /\ s_idle_task # NULL
        /\ s_tasks[s_current].state = "Running" /\ With("Running") = {s_current}
    BY <1>5, InTaskFacts
  <2>3. NextTask \in Slots /\ Rest \in Seq(Slots) /\ Members(Rest) = Members(ready) \ {NextTask}
    BY <2>2, NextTaskFacts DEF IInv
  <2>4. s_current \notin Members(ready)
    BY <2>2 DEF IInv, ReadyQueueExact, With
  <2> QED BY <1>0, <2>1, <2>2, <2>3, <2>4, DispatchIsFair
<1>6. CASE Yield
  BY <1>5, <1>6, YieldSwitches
<1>7. CASE Exit
  BY <1>5, <1>7, ExitSwitches
<1>8. ASSUME NEW s \in Slots, Push(s)
      PROVE  NoSecondTurnFirst'
  <2>1. s \in handles /\ ready' = Append(ready, s) /\ s_current' = s_current
    BY <1>8 DEF Push, push, Enqueue
  <2>2. s \notin Members(ready)
    BY <2>1 DEF IInv, ReadyQueueExact
  <2> QED BY <1>0, <2>1, <2>2, QuietStepIsFair
<1>9. CASE EnterTask
  BY <1>2, <1>9 DEF EnterTask, task_bootstrap_entry
<1>10. CASE IdleWfi \/ \E k \in Stacks \cup {NULL} : CreateFails(k)
  BY <1>2, <1>10 DEF IdleWfi, CreateFails, vars
<1>11. ASSUME NEW e \in Entries, NEW k \in Stacks, Create(e, k)
       PROVE  NoSecondTurnFirst'
  BY <1>2, <1>11 DEF Create
<1> QED BY <1>3, <1>4, <1>6, <1>7, <1>8, <1>9, <1>10, <1>11 DEF Next

(* For any number of tasks, a queued task waits for at most one turn of    *)
(* every other task: nobody is served twice before it.                     *)
THEOREM RoundRobin == HSpec => []NoSecondTurnFirst
<1>1. HInit => IInv /\ NoSecondTurnFirst
  <2> SUFFICES ASSUME HInit PROVE IInv /\ NoSecondTurnFirst
    OBVIOUS
  <2>1. IInv
    BY InitInv DEF HInit
  <2>2. ready = <<>>
    BY DEF HInit, Init
  <2> QED BY <2>1, <2>2, EmptyQueue DEF NoSecondTurnFirst
<1>2. IInv /\ [HNext]_hvars => IInv'
  <2>1. [HNext]_hvars => [Next]_vars
    BY DEF HNext, hvars
  <2> QED BY <2>1, NextKeepsInv
<1>3. IInv /\ NoSecondTurnFirst /\ [HNext]_hvars => NoSecondTurnFirst'
  BY StepIsFair
<1> QED BY <1>1, <1>2, <1>3, PTL DEF HSpec

-----------------------------------------------------------------------------
(* The run_node links *)

(* Positions of a queue without duplicates name their cells. *)
LEMMA CellFacts ==
  ASSUME NEW q \in Seq(Slots), NoDup(q)
  PROVE  /\ Len(q) \in Nat
         /\ \A i \in Nat : Cell(q, i) \in Cells
         /\ \A i \in 1..Len(q) : Cell(q, i) = q[i] /\ Cell(q, i) \in Slots /\ Cell(q, i) # m_head
         /\ Cell(q, 0) = m_head /\ Cell(q, Len(q) + 1) = m_head
         /\ \A i, j \in 0..Len(q) : Cell(q, i) = Cell(q, j) => i = j
         /\ \A i, j \in 1..(Len(q) + 1) : Cell(q, i) = Cell(q, j) => i = j
<1>1. Len(q) \in Nat /\ \A i \in 1..Len(q) : q[i] \in Slots
  OBVIOUS
<1>2. m_head \notin Slots
  BY NodesAssumption
<1>3. \A i \in 1..Len(q) : Cell(q, i) = q[i] /\ Cell(q, i) \in Slots /\ Cell(q, i) # m_head
  BY <1>1, <1>2 DEF Cell
<1>4. Cell(q, 0) = m_head /\ Cell(q, Len(q) + 1) = m_head
  BY <1>1 DEF Cell
<1>5. \A i \in Nat : Cell(q, i) \in Cells
  BY <1>1 DEF Cell, Cells
<1>6. \A i, j \in 0..Len(q) : Cell(q, i) = Cell(q, j) => i = j
  <2>1. \A i \in 0..Len(q) : i = 0 \/ i \in 1..Len(q)
    BY <1>1
  <2> QED BY <1>3, <1>4, <2>1 DEF NoDup
<1>7. \A i, j \in 1..(Len(q) + 1) : Cell(q, i) = Cell(q, j) => i = j
  <2>1. \A i \in 1..(Len(q) + 1) : i = Len(q) + 1 \/ i \in 1..Len(q)
    BY <1>1
  <2> QED BY <1>3, <1>4, <2>1 DEF NoDup
<1> QED BY <1>1, <1>3, <1>4, <1>5, <1>6, <1>7

(* Queue::init makes an empty ring. *)
LEMMA FreshChain ==
  ASSUME NEW l \in Memory
  PROVE  Fresh(l) \in Memory /\ Chained(Fresh(l), <<>>)
<1>1. m_head \in Cells
  BY DEF Cells
<1> QED BY <1>1 DEF Fresh, Chained, Memory, Cell

(* create_kernel_task clears a run_node that is in no queue. *)
LEMMA ClearedChain ==
  ASSUME NEW l \in Memory, NEW s \in Slots
  PROVE  /\ Cleared(l, s) \in Memory
         /\ \A q \in Seq(Slots) :
              NoDup(q) /\ s \notin Members(q) /\ Chained(l, q) => Chained(Cleared(l, s), q)
<1>1. s \in Cells /\ s # m_head
  BY NodesAssumption DEF Cells
<1>2. Cleared(l, s) \in Memory
  BY <1>1 DEF Cleared, Memory
<1>3. /\ \A c \in Cells : c # s => Cleared(l, s).next[c] = l.next[c]
      /\ \A c \in Cells : c # s => Cleared(l, s).prev[c] = l.prev[c]
  BY <1>1 DEF Cleared, Memory
<1>4. ASSUME NEW q \in Seq(Slots), NoDup(q), s \notin Members(q), Chained(l, q)
      PROVE  Chained(Cleared(l, s), q)
  <2>1. Len(q) \in Nat /\ \A i \in Nat : Cell(q, i) \in Cells
    BY <1>4, CellFacts
  <2>2. \A i \in Nat : Cell(q, i) # s
    BY <1>1, <1>4, <2>1 DEF Cell, Members
  <2>3. \A i \in 0..Len(q) : i \in Nat /\ i + 1 \in Nat
    BY <2>1
  <2> QED BY <1>3, <1>4, <2>1, <2>2, <2>3 DEF Chained
<1> QED BY <1>2, <1>4

(* Queue::push links a task behind the last one. *)
LEMMA PushedChain ==
  ASSUME NEW l \in Memory, NEW q \in Seq(Slots), NoDup(q), Chained(l, q),
         NEW s \in Slots, s \notin Members(q)
  PROVE  Pushed(l, s) \in Memory /\ Chained(Pushed(l, s), Append(q, s))
<1> DEFINE n == Len(q)
           a == Append(q, s)
           m == Pushed(l, s)
           last == Cell(q, n)
<1>1. n \in Nat /\ s # m_head /\ s \in Cells /\ m_head \in Cells
  BY NodesAssumption DEF Cells
<1>2. last \in Cells /\ l.prev[m_head] = last /\ last # s
  <2>1. Cell(q, n) \in Cells /\ Cell(q, n + 1) = m_head
    BY <1>1, CellFacts
  <2>2. n \in 0..n
    BY <1>1
  <2>3. last # s
    BY <1>1 DEF Cell, Members
  <2> QED BY <2>1, <2>2, <2>3 DEF Chained
<1>3. m \in Memory
  BY <1>1, <1>2 DEF Pushed, Memory
<1>4. /\ m.next[last] = s /\ m.next[s] = m_head
      /\ m.prev[m_head] = s /\ m.prev[s] = last
      /\ \A c \in Cells : c # last /\ c # s => m.next[c] = l.next[c]
      /\ \A c \in Cells : c # m_head /\ c # s => m.prev[c] = l.prev[c]
  BY <1>1, <1>2 DEF Pushed, Memory
<1>5. /\ Len(a) = n + 1
      /\ \A i \in 0..n : Cell(a, i) = Cell(q, i)
      /\ Cell(a, n + 1) = s /\ Cell(a, n + 2) = m_head
  <2>1. Len(a) = n + 1 /\ a[n + 1] = s /\ \A i \in 1..n : a[i] = q[i]
    OBVIOUS
  <2> QED BY <1>1, <2>1 DEF Cell
<1> SUFFICES ASSUME NEW i \in 0..(n + 1)
             PROVE  m.next[Cell(a, i)] = Cell(a, i + 1) /\ m.prev[Cell(a, i + 1)] = Cell(a, i)
  BY <1>3, <1>5 DEF Chained
<1> HIDE DEF a, m
<1>6. CASE i = n + 1
  BY <1>1, <1>4, <1>5, <1>6
<1>7. CASE i = n
  <2>1. i \in 0..n
    BY <1>1, <1>7
  <2> QED BY <1>4, <1>5, <1>7, <2>1
<1>8. CASE i \in 0..(n - 1)
  <2>1. i \in 0..n /\ i + 1 \in 1..n /\ i + 1 \in 0..n /\ n \in 0..n /\ i # n /\ i \in Nat
    BY <1>1, <1>8
  <2>2. Cell(q, i) \in Cells /\ Cell(q, i) # last
    BY <2>1, CellFacts
  <2>3. Cell(q, i + 1) = q[i + 1] /\ Cell(q, i + 1) \in Cells /\ Cell(q, i + 1) # m_head
    BY <2>1, CellFacts DEF Cells
  <2>4. Cell(q, i) # s /\ Cell(q, i + 1) # s
    BY <1>1, <2>1 DEF Cell, Members
  <2>5. l.next[Cell(q, i)] = Cell(q, i + 1) /\ l.prev[Cell(q, i + 1)] = Cell(q, i)
    BY <2>1 DEF Chained
  <2>6. m.next[Cell(q, i)] = Cell(q, i + 1) /\ m.prev[Cell(q, i + 1)] = Cell(q, i)
    BY <1>4, <2>2, <2>3, <2>4, <2>5
  <2> QED BY <1>5, <2>1, <2>6
<1> QED BY <1>1, <1>6, <1>7, <1>8

(* Queue::pop unlinks the first task, if there is one. *)
LEMMA DroppedChain ==
  ASSUME NEW l \in Memory, NEW q \in Seq(Slots), NoDup(q), Chained(l, q)
  PROVE  /\ Dropped(l) \in Memory
         /\ Chained(Dropped(l), IF q = <<>> THEN q ELSE Tail(q))
<1> DEFINE n == Len(q)
           t == Tail(q)
           m == Dropped(l)
<1>1. n \in Nat /\ m_head \in Cells /\ m_head # NULL /\ NULL \notin Slots
  BY NodesAssumption, SchedAssumption DEF Cells
<1>2. l.next[m_head] = Cell(q, 1)
  BY <1>1, CellFacts DEF Chained
<1>3. CASE q = <<>>
  <2>1. l.next[m_head] = m_head
    BY <1>2, <1>3 DEF Cell
  <2> QED BY <1>3, <2>1 DEF Dropped, Front
<1>4. CASE q # <<>>
  <2>1. n >= 1 /\ 1 \in 1..n /\ 1 \in 0..n /\ 2 \in Nat
    BY <1>1, <1>4
  <2>2. Cell(q, 1) = q[1] /\ q[1] \in Slots /\ q[1] # m_head /\ q[1] # NULL /\ Cell(q, 2) \in Cells
    BY <1>1, <2>1, CellFacts
  <2>3. l.prev[q[1]] = m_head /\ l.next[q[1]] = Cell(q, 2)
    <3>1. 0 \in 0..n /\ 0 + 1 = 1 /\ 1 + 1 = 2
      BY <1>1
    <3> QED BY <2>1, <2>2, <3>1, CellFacts DEF Chained
  <2>4. m = Removed(l, q[1])
    BY <1>2, <2>2 DEF Dropped, Front
  <2>5. m \in Memory
    BY <1>1, <2>2, <2>3, <2>4 DEF Removed, Memory
  <2>6. /\ m.next[m_head] = Cell(q, 2) /\ m.prev[Cell(q, 2)] = m_head
        /\ \A c \in Cells : c # m_head => m.next[c] = l.next[c]
        /\ \A c \in Cells : c # Cell(q, 2) => m.prev[c] = l.prev[c]
    BY <1>1, <2>2, <2>3, <2>4 DEF Removed, Memory
  <2>7. Len(t) = n - 1 /\ Cell(t, 0) = m_head /\ \A i \in 1..n : Cell(t, i) = Cell(q, i + 1)
    <3>1. Len(t) = n - 1 /\ \A i \in 1..(n - 1) : t[i] = q[i + 1]
      BY <1>4
    <3> QED BY <1>1, <3>1 DEF Cell
  <2> SUFFICES ASSUME NEW i \in 0..(n - 1)
               PROVE  /\ m.next[Cell(t, i)] = Cell(t, i + 1)
                      /\ m.prev[Cell(t, i + 1)] = Cell(t, i)
    BY <1>4, <2>5, <2>7 DEF Chained
  <2> HIDE DEF m, t
  <2>8. CASE i = 0
    BY <2>1, <2>6, <2>7, <2>8
  <2>9. CASE i # 0
    <3>1. /\ i \in 1..n /\ i + 1 \in 1..n /\ i + 1 \in 0..n
          /\ (i + 1) + 1 \in 1..(n + 1) /\ 2 \in 1..(n + 1) /\ (i + 1) + 1 # 2
          /\ i + 1 \in Nat /\ (i + 1) + 1 \in Nat
      BY <1>1, <2>9
    <3>2. Cell(q, i + 1) \in Cells /\ Cell(q, i + 1) # m_head
      BY <3>1, CellFacts
    <3>3. Cell(q, (i + 1) + 1) \in Cells /\ Cell(q, (i + 1) + 1) # Cell(q, 2)
      BY <3>1, CellFacts
    <3>4. /\ l.next[Cell(q, i + 1)] = Cell(q, (i + 1) + 1)
          /\ l.prev[Cell(q, (i + 1) + 1)] = Cell(q, i + 1)
      BY <3>1 DEF Chained
    <3> QED BY <2>6, <2>7, <3>1, <3>2, <3>3, <3>4
  <2> QED BY <2>8, <2>9
<1> QED BY <1>3, <1>4

(* Read off the links, the first task is the one the scheduler would take   *)
(* from the front of the queue.                                             *)
LEMMA FirstIsNext ==
  ASSUME NInv, s_idle_task # NULL
  PROVE  First = NextTask
<1>1. ready \in Seq(Slots) /\ NoDup(ready) /\ Chained(Links, ready)
  BY DEF NInv, IInv, TypeOK, ReadyQueueExact
<1>2. Links.next[m_head] = Cell(ready, 1)
  <2>1. 0 \in 0..Len(ready) /\ 0 + 1 = 1 /\ Cell(ready, 0) = m_head
    BY <1>1, CellFacts
  <2> QED BY <1>1, <2>1 DEF Chained
<1>3. Front(Links) = Popped
  <2>1. CASE ready = <<>>
    BY <1>2, <2>1 DEF Front, Popped, Cell
  <2>2. CASE ready # <<>>
    <3>1. 1 \in 1..Len(ready) /\ Head(ready) = ready[1]
      BY <1>1, <2>2
    <3>2. Cell(ready, 1) = Head(ready) /\ Cell(ready, 1) # m_head
      BY <1>1, <3>1, CellFacts
    <3> QED BY <1>2, <2>2, <3>2 DEF Front, Popped
  <2> QED BY <2>1, <2>2
<1> QED BY <1>3 DEF First, NextTask

(* So rescheduling on the links is rescheduling. *)
LEMMA NodesReschedule ==
  ASSUME NInv, InTask, NEW tasks, NEW ra, NReschedule(tasks, ra)
  PROVE  reschedule(tasks, ra) /\ UNCHANGED <<s_next_id, s_idle_task, frames, handles>>
<1>1. First = NextTask
  BY InTaskFacts, FirstIsNext DEF NInv
<1> QED BY <1>1 DEF NReschedule, reschedule

LEMMA NodeYieldIsYield == NInv /\ NYield => Yield
BY NodesReschedule DEF NYield, Yield, yield

LEMMA NodeExitIsExit == NInv /\ NExit => Exit
BY NodesReschedule DEF NExit, Exit, sys_exit

(* Every step of the links is a step of the scheduler: where the invariant *)
(* holds, the task the links lead to is the one the scheduler would pick.  *)
LEMMA NodeStepIsStep == NInv /\ [NNext]_nvars => [HNext]_hvars
<1>1. NInv /\ NStart => Start
  <2> SUFFICES ASSUME NInv, NStart PROVE Start
    OBVIOUS
  <2>1. First = NextTask
    BY FirstIsNext DEF NStart
  <2> QED BY <2>1 DEF NStart, Start, start
<1>2. NInv /\ NStep => Next
  BY <1>1, NodeYieldIsYield, NodeExitIsExit
     DEF NStep, NBootstrap, NEnter, NOther, NCreate, NPush, Next
<1> QED BY <1>2 DEF NNext, HNext, nvars

(* What Become makes the links. *)
LEMMA BecomeLinks ==
  ASSUME NEW l \in Memory, Become(l)
  PROVE  Links' = l
BY DEF Become, Memory, Links

(* A task that gives up the hart: its successor is popped, and it is pushed *)
(* itself if it goes back to the queue.                                     *)
LEMMA RescheduledKeepsChain ==
  ASSUME NInv, InTask, NEW left, NEW back, SwitchStep(left, back), NEW tasks,
         Requeues(tasks) <=> left = "Ready",
         NReschedule(tasks, back)
  PROVE  Links' \in Memory /\ Chained(Links', ready')
<1>1. IInv /\ Links \in Memory
  BY DEF NInv
<1>2. /\ s_current \in Slots /\ s_current # s_idle_task /\ s_idle_task # NULL
      /\ s_tasks[s_current].state = "Running" /\ With("Running") = {s_current}
  BY <1>1, InTaskFacts
<1>3. ready \in Seq(Slots) /\ NoDup(ready) /\ Chained(Links, ready)
  BY <1>2 DEF NInv, IInv, TypeOK, ReadyQueueExact
<1>4. Dropped(Links) \in Memory /\ Chained(Dropped(Links), Rest)
  BY <1>1, <1>3, DroppedChain DEF Rest
<1>5. First # NULL /\ s_current # NULL
  <2>1. First = NextTask /\ NextTask \in Slots
    BY <1>1, <1>2, FirstIsNext, NextTaskFacts DEF IInv
  <2> QED BY <1>2, <2>1, SchedAssumption
<1>6. GoesBack(tasks, First) <=> left = "Ready"
  BY <1>5 DEF GoesBack, Returns
<1>7. CASE left = "Ready"
  <2>1. Rest \in Seq(Slots) /\ NoDup(Rest) /\ Members(Rest) = Members(ready) \ {NextTask}
    BY <1>1, <1>2, NextTaskFacts DEF IInv
  <2>2. s_current \notin Members(Rest)
    BY <1>1, <1>2, <2>1 DEF IInv, ReadyQueueExact, With
  <2>3. /\ Pushed(Dropped(Links), s_current) \in Memory
        /\ Chained(Pushed(Dropped(Links), s_current), Append(Rest, s_current))
    BY <1>2, <1>4, <2>1, <2>2, PushedChain
  <2>4. ready' = Append(Rest, s_current) /\ Become(Pushed(Dropped(Links), s_current))
    BY <1>6, <1>7 DEF SwitchStep, NReschedule
  <2> QED BY <2>3, <2>4, BecomeLinks
<1>8. CASE left # "Ready"
  <2>1. ready' = Rest /\ Become(Dropped(Links))
    BY <1>6, <1>8 DEF SwitchStep, NReschedule
  <2> QED BY <1>4, <2>1, BecomeLinks
<1> QED BY <1>7, <1>8

LEMMA NodeInitInv == NInit => NInv
<1> SUFFICES ASSUME NInit PROVE NInv
  OBVIOUS
<1>1. IInv /\ s_idle_task = NULL
  BY InitInv DEF NInit, HInit, Init
<1>2. Links \in Memory
  BY DEF NInit, Links, Memory, Cells
<1> QED BY <1>1, <1>2 DEF NInv

(* One step per operation on the links. *)
LEMMA NodeStepKeepsInv == NInv /\ [NNext]_nvars => NInv'
<1> SUFFICES ASSUME NInv, [NNext]_nvars PROVE NInv'
  OBVIOUS
<1>1. IInv /\ IInv'
  <2>1. [Next]_vars
    BY NodeStepIsStep DEF HNext, hvars
  <2> QED BY <2>1, NextKeepsInv DEF NInv
<1>2. Links \in Memory
  BY DEF NInv
<1>3. ready \in Seq(Slots) /\ NoDup(ready)
  BY <1>1 DEF IInv, TypeOK, ReadyQueueExact
<1> SUFFICES Links' \in Memory /\ (s_idle_task' # NULL => Chained(Links', ready'))
  BY <1>1 DEF NInv
<1>4. ASSUME UNCHANGED <<next, prev, ready, s_idle_task>>
      PROVE  Links' \in Memory /\ (s_idle_task' # NULL => Chained(Links', ready'))
  BY <1>4 DEF NInv, Links, Chained, Cell
<1>5. CASE NBootstrap
  <2>1. s_idle_task' \in Slots /\ ready' = <<>>
    BY <1>5 DEF NBootstrap, Bootstrap, bootstrap_scheduler
  <2>2. Cleared(Links, s_idle_task') \in Memory
    BY <1>2, <2>1, ClearedChain
  <2>3. /\ Fresh(Cleared(Links, s_idle_task')) \in Memory
        /\ Chained(Fresh(Cleared(Links, s_idle_task')), <<>>)
    BY <2>2, FreshChain
  <2>4. Links' = Fresh(Cleared(Links, s_idle_task'))
    BY <1>5, <2>3, BecomeLinks DEF NBootstrap
  <2> QED BY <2>1, <2>3, <2>4
<1>6. ASSUME NEW e \in Entries, NEW k \in Stacks, NCreate(e, k)
      PROVE  Links' \in Memory /\ (s_idle_task' # NULL => Chained(Links', ready'))
  <2>1. PICK s \in Slots : /\ s_tasks[s].state = "Empty" /\ handles' = handles \cup {s}
                           /\ ready' = ready /\ s_idle_task' = s_idle_task
    BY <1>6 DEF NCreate, Create, FirstEmpty
  <2>2. Become(Cleared(Links, s))
    BY <1>6, <2>1 DEF NCreate
  <2>3. s \notin Members(ready)
    BY <1>1, <2>1 DEF IInv, ReadyQueueExact, With
  <2>4. Cleared(Links, s) \in Memory /\ Links' = Cleared(Links, s)
    BY <1>2, <2>2, ClearedChain, BecomeLinks
  <2> QED BY <1>2, <1>3, <2>1, <2>3, <2>4, ClearedChain DEF NInv
<1>7. ASSUME NEW s \in Slots, NPush(s)
      PROVE  Links' \in Memory /\ (s_idle_task' # NULL => Chained(Links', ready'))
  <2>1. /\ s \in handles /\ ready' = Append(ready, s) /\ s_idle_task # NULL
        /\ Become(Pushed(Links, s))
    BY <1>1, <1>7, CallerFacts DEF NPush, Push, push, Enqueue
  <2>2. s \notin Members(ready)
    BY <1>1, <2>1 DEF IInv, ReadyQueueExact
  <2>3. Pushed(Links, s) \in Memory /\ Chained(Pushed(Links, s), Append(ready, s))
    BY <1>2, <1>3, <2>1, <2>2, PushedChain DEF NInv
  <2> QED BY <2>1, <2>3, BecomeLinks
<1>8. CASE NStart
  <2>1. ready' = Rest /\ s_idle_task # NULL /\ Become(Dropped(Links))
    BY <1>8 DEF NStart
  <2>2. Dropped(Links) \in Memory /\ Chained(Dropped(Links), Rest)
    BY <1>2, <1>3, <2>1, DroppedChain DEF Rest, NInv
  <2> QED BY <2>1, <2>2, BecomeLinks
<1>9. CASE NYield
  <2>1. InTask /\ SwitchStep("Ready", "body") /\ NReschedule(s_tasks, "body")
    BY <1>1, <1>9, NodeYieldIsYield, YieldSwitches DEF NYield
  <2>2. Requeues(s_tasks)
    BY <1>1, <2>1, InTaskFacts DEF Requeues
  <2> QED BY <2>1, <2>2, RescheduledKeepsChain
<1>10. CASE NExit
  <2>1. InTask /\ SwitchStep("Dead", "wfi_loop") /\ NReschedule(Exited, "wfi_loop")
    BY <1>1, <1>10, NodeExitIsExit, ExitSwitches DEF NExit
  <2>2. ~Requeues(Exited)
    BY <1>1, <2>1, InTaskFacts DEF Requeues, Exited, IInv, TypeOK
  <2> QED BY <2>1, <2>2, RescheduledKeepsChain
<1>11. CASE NEnter \/ NOther
  <2>1. UNCHANGED <<ready, s_idle_task>>
    BY <1>11 DEF NEnter, NOther, EnterTask, task_bootstrap_entry, IdleWfi, CreateFails, vars
  <2> QED BY <1>4, <1>11, <2>1 DEF NEnter, NOther
<1>12. CASE UNCHANGED nvars
  BY <1>4, <1>12 DEF nvars, hvars, vars
<1> QED BY <1>5, <1>6, <1>7, <1>8, <1>9, <1>10, <1>11, <1>12 DEF NNext, NStep

(* For any number of tasks, in memory the ready queue is what the          *)
(* scheduler takes it for: run_node links, requeued with old contents and  *)
(* cleared by create_kernel_task, are the queue forward and backward       *)
(* (run_queue.cpp:10-36, list.cpp:30-57, scheduler.cpp:39-61).             *)
THEOREM QueueInMemory == NSpec => []LinksAreQueue
<1>1. NInv => LinksAreQueue
  <2> SUFFICES ASSUME NInv, s_idle_task # NULL,
                      NEW i \in 1..(Len(Ring) - 1)
               PROVE  next[Ring[i]] = Ring[i + 1] /\ prev[Ring[i + 1]] = Ring[i]
    BY DEF LinksAreQueue
  <2>1. ready \in Seq(Slots) /\ Len(ready) \in Nat
    BY DEF NInv, IInv, TypeOK
  <2>2. Len(Ring) = Len(ready) + 2 /\ \A j \in 1..(Len(ready) + 2) : Ring[j] = Cell(ready, j - 1)
    BY <2>1 DEF Ring, Cell
  <2>3. i - 1 \in 0..Len(ready) /\ (i - 1) + 1 = (i + 1) - 1
        /\ i \in 1..(Len(ready) + 2) /\ i + 1 \in 1..(Len(ready) + 2)
    BY <2>1, <2>2
  <2>4. Ring[i] = Cell(ready, i - 1) /\ Ring[i + 1] = Cell(ready, (i - 1) + 1)
    BY <2>2, <2>3
  <2>5. Chained(Links, ready) /\ Links.next = next /\ Links.prev = prev
    BY DEF NInv, Links
  <2> QED BY <2>3, <2>4, <2>5 DEF Chained
<1> QED BY <1>1, NodeInitInv, NodeStepKeepsInv, PTL DEF NSpec

(* The scheduler that takes its next task from the links in memory is the  *)
(* scheduler on a sequence: it picks the same task at every start, yield    *)
(* and exit, so all that is proved of the one holds of the other            *)
(* (run_queue.cpp:28-36, scheduler.cpp:14-61).  This needs the links to be  *)
(* the queue.                                                               *)
THEOREM NodesRunScheduler == NSpec => HSpec
<1>1. NInit => HInit
  BY DEF NInit
<1> QED BY <1>1, NodeInitInv, NodeStepKeepsInv, NodeStepIsStep, PTL DEF NSpec, HSpec
=============================================================================
