------------------------------ MODULE RunNodes ------------------------------
(***************************************************************************)
(* The scheduler of TaskSched, with the history of SchedFairness and the   *)
(* ready queue as it is in memory: a list through the run_node of the      *)
(* tasks.  Every scheduler step does its writes to the links; reschedule   *)
(* pops one node and may push another.  Who comes next, and whether there  *)
(* is anybody, is read off the links; ready is only the history of what    *)
(* was pushed and popped, and no step depends on it.  Slots stand for      *)
(* their run_nodes (container_of is the slot), m_head for the sentinel.    *)
(***************************************************************************)
EXTENDS SchedFairness

CONSTANT m_head       \* RunQueue::s_ready_queue's sentinel

ASSUME NodesAssumption == m_head \notin Slots \cup {NULL}

VARIABLES next, prev  \* the links of every run_node and of the sentinel

nvars == <<hvars, next, prev>>

(* The links as one value, for steps that do several operations. *)
Links == [next |-> next, prev |-> prev]
Become(l) == next' = l.next /\ prev' = l.prev

-----------------------------------------------------------------------------
Cleared(l, n) == [next |-> [l.next EXCEPT ![n] = NULL], prev |-> [l.prev EXCEPT ![n] = NULL]]

Fresh(l) == [next |-> [l.next EXCEPT ![m_head] = m_head],
             prev |-> [l.prev EXCEPT ![m_head] = m_head]]

(* Mutant: the old last node is not linked to the new one. *)
PushedUnlinked(l, n) ==
  [next |-> [l.next EXCEPT ![n] = m_head],
   prev |-> [l.prev EXCEPT ![n] = l.prev[m_head], ![m_head] = n]]

(* Mutant: the node is linked in front. *)
PushedFront(l, n) ==
  [next |-> [l.next EXCEPT ![n] = l.next[m_head], ![m_head] = n],
   prev |-> [l.prev EXCEPT ![n] = m_head, ![l.next[m_head]] = n]]

Pushed(l, n) ==
  [next |-> [l.next EXCEPT ![n] = m_head, ![l.prev[m_head]] = n],
   prev |-> [l.prev EXCEPT ![n] = l.prev[m_head], ![m_head] = n]]

Removed(l, n) ==
  [next |-> [l.next EXCEPT ![l.prev[n]] = l.next[n]],
   prev |-> [l.prev EXCEPT ![l.next[n]] = l.prev[n]]]

Front(l)  == IF l.next[m_head] = m_head THEN NULL ELSE l.next[m_head]

(* Mutant: the front is read and not unlinked. *)
Undropped(l) == l

Dropped(l) == IF Front(l) = NULL THEN l ELSE Removed(l, Front(l))

-----------------------------------------------------------------------------
NInit ==
  /\ HInit
  /\ next = [c \in Slots \cup {m_head} |-> NULL]
  /\ prev = [c \in Slots \cup {m_head} |-> NULL]

NBootstrap == Bootstrap /\ Become(Fresh(Cleared(Links, s_idle_task')))

NCreate(e, k) ==
  /\ Create(e, k)
  /\ \E s \in handles' \ handles : Become(Cleared(Links, s))

NPush(s) == Push(s) /\ Become(Pushed(Links, s))

(* The task that RunQueue::next() finds in memory, or idle. *)
First == OrIdle(Front(Links))

NStart ==
  /\ InKmain /\ s_idle_task # NULL
  /\ start_with(First)
  /\ Become(Dropped(Links)) /\ ready' = Rest

(* Pop the next task, and push the one that runs if it goes back. *)
NReschedule(tasks, ra) ==
  /\ switch_to(tasks, First, ra)
  /\ IF GoesBack(tasks, First)
     THEN Become(Pushed(Dropped(Links), s_current)) /\ ready' = Enqueue(Rest, s_current)
     ELSE Become(Dropped(Links)) /\ ready' = Rest
  /\ UNCHANGED <<s_next_id, s_idle_task, frames, handles>>

NYield == InTask /\ NReschedule(s_tasks, "body")
NExit  == InTask /\ NReschedule(Exited, "wfi_loop")

NEnter == EnterTask /\ UNCHANGED <<next, prev>>

NOther ==
  /\ IdleWfi \/ \E k \in Stacks \cup {NULL} : CreateFails(k)
  /\ UNCHANGED <<next, prev>>

NStep ==
  \/ NBootstrap \/ NStart \/ NEnter \/ NYield \/ NExit \/ NOther
  \/ \E e \in Entries, k \in Stacks : NCreate(e, k)
  \/ \E s \in Slots : NPush(s)

NNext == NStep /\ served' = [s \in Slots |-> Served(s)]

NSpec == NInit /\ [][NNext]_nvars

(* With the fairness TaskSched's LiveSpec asks of kmain and the tasks. *)
NLiveSpec ==
  /\ NSpec
  /\ WF_vars(NBootstrap) /\ WF_vars(NStart) /\ WF_vars(NEnter)
  /\ WF_vars(NYield \/ NExit)

-----------------------------------------------------------------------------
(* Around the ring and back, starting at the sentinel. *)
Ring == <<m_head>> \o ready \o <<m_head>>

(* In memory the ready queue is what the scheduler takes it for: followed  *)
(* forward and backward the links visit exactly the queued tasks in their  *)
(* order, although nodes are requeued with old links, one step pops and    *)
(* pushes, and create_kernel_task writes to a run_node too: never to one   *)
(* that is linked (run_queue.cpp:10-36, list.cpp:30-57,                    *)
(* task_manager.cpp:66-67, scheduler.cpp:39-61).                           *)
LinksAreQueue ==
  s_idle_task # NULL =>
    \A i \in 1..(Len(Ring) - 1) : next[Ring[i]] = Ring[i + 1] /\ prev[Ring[i + 1]] = Ring[i]

(* The same by position, the sentinel before the first and behind the last *)
(* task, for links and a queue that a step is half way through.            *)
Cell(q, i) == IF i \in 1..Len(q) THEN q[i] ELSE m_head

Chained(l, q) ==
  \A i \in 0..Len(q) :
    l.next[Cell(q, i)] = Cell(q, i + 1) /\ l.prev[Cell(q, i + 1)] = Cell(q, i)

Cells  == Slots \cup {m_head}
Memory == [next : [Cells -> Cells \cup {NULL}], prev : [Cells -> Cells \cup {NULL}]]

(* The inductive invariant: the scheduler's, and the links. *)
NInv ==
  /\ IInv
  /\ Links \in Memory
  /\ s_idle_task # NULL => Chained(Links, ready)
=============================================================================
