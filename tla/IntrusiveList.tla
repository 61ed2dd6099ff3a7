--------------------------- MODULE IntrusiveList ---------------------------
(***************************************************************************)
(* kernel/lib/ds/list.{h,cpp} and queue.{h,cpp}: a circular doubly linked  *)
(* list threaded through its callers' objects.  The list owns one sentinel *)
(* node, m_head; an operation is a few pointer writes.  remove() leaves    *)
(* the removed node's own pointers as they were, so a popped node that is  *)
(* pushed again still carries stale links.                                 *)
(***************************************************************************)
EXTENDS Naturals, Sequences

CONSTANTS Nodes,    \* the ListNode objects embedded in the callers' objects
          m_head,   \* the sentinel
          NULL      \* nullptr

ASSUME ListAssumption ==
  m_head \notin Nodes /\ NULL \notin Nodes \cup {m_head}

VARIABLES next, prev,   \* the two pointer fields of every node
          ret,          \* the pointer returned by the last pop
          order         \* history variable: what the callers have linked,
                        \* front to back; no operation reads it

vars == <<next, prev, ret, order>>

Cells == Nodes \cup {m_head}

Members(q) == {q[i] : i \in 1..Len(q)}
Without(q, k) == [i \in 1..(Len(q) - 1) |-> IF i < k THEN q[i] ELSE q[i + 1]]

-----------------------------------------------------------------------------
(* The operations, on the pointers alone. *)

initialised == next[m_head] # NULL

empty == next[m_head] = m_head

init ==
  /\ next' = [next EXCEPT ![m_head] = m_head]
  /\ prev' = [prev EXCEPT ![m_head] = m_head]

push_front(n) ==
  /\ n # NULL
  /\ prev' = [prev EXCEPT ![n] = m_head, ![next[m_head]] = n]
  /\ next' = [next EXCEPT ![n] = next[m_head], ![m_head] = n]

push_back(n) ==
  /\ n # NULL
  /\ next' = [next EXCEPT ![n] = m_head, ![prev[m_head]] = n]
  /\ prev' = [prev EXCEPT ![n] = prev[m_head], ![m_head] = n]

(* push_front(nullptr) and push_back(nullptr) return before any write. *)
push_null(n) == n = NULL /\ UNCHANGED <<next, prev>>

(* Mutant: the backward link is not mended. *)
remove_forward(n) ==
  /\ next' = [next EXCEPT ![prev[n]] = next[n]]
  /\ UNCHANGED prev

remove(n) ==
  /\ next' = [next EXCEPT ![prev[n]] = next[n]]
  /\ prev' = [prev EXCEPT ![next[n]] = prev[n]]

(* Mutant: an empty list is not noticed. *)
pop_front_unchecked == ret' = next[m_head] /\ remove(next[m_head])

pop_front ==
  \/ empty /\ ret' = NULL /\ UNCHANGED <<next, prev>>
  \/ ~empty /\ ret' = next[m_head] /\ remove(next[m_head])

(* Mutant: pop_back takes the front. *)
pop_back_front ==
  \/ empty /\ ret' = NULL /\ UNCHANGED <<next, prev>>
  \/ ~empty /\ ret' = next[m_head] /\ remove(next[m_head])

pop_back ==
  \/ empty /\ ret' = NULL /\ UNCHANGED <<next, prev>>
  \/ ~empty /\ ret' = prev[m_head] /\ remove(prev[m_head])

-----------------------------------------------------------------------------
(* Callers that keep the contract of list.h: init() comes first, a node is *)
(* pushed only while it is not linked, and only a linked node is removed.  *)

(* A zeroed list and zeroed nodes, as static storage and {} leave them. *)
Init ==
  /\ next = [c \in Cells |-> NULL]
  /\ prev = [c \in Cells |-> NULL]
  /\ ret = NULL
  /\ order = <<>>

DoInit == init /\ order' = <<>> /\ UNCHANGED ret

DoPushFront(n) ==
  /\ initialised /\ n \notin Members(order)
  /\ push_front(n)
  /\ order' = <<n>> \o order
  /\ UNCHANGED ret

DoPushBack(n) ==
  /\ initialised /\ n \notin Members(order)
  /\ push_back(n)
  /\ order' = Append(order, n)
  /\ UNCHANGED ret

DoPushNull == initialised /\ push_null(NULL) /\ UNCHANGED <<ret, order>>

DoPopFront ==
  /\ initialised
  /\ pop_front
  /\ order' = IF order = <<>> THEN order ELSE Without(order, 1)

DoPopBack ==
  /\ initialised
  /\ pop_back
  /\ order' = IF order = <<>> THEN order ELSE Without(order, Len(order))

DoRemove(k) ==
  /\ initialised
  /\ remove(order[k])
  /\ order' = Without(order, k)
  /\ UNCHANGED ret

Next == \/ DoInit \/ DoPushNull \/ DoPopFront \/ DoPopBack
        \/ \E n \in Nodes : DoPushFront(n)
        \/ \E n \in Nodes : DoPushBack(n)
        \/ \E k \in 1..Len(order) : DoRemove(k)

Spec == Init /\ [][Next]_vars

-----------------------------------------------------------------------------
(* Every pointer field holds a node or nullptr, and the history a sequence *)
(* of nodes.                                                               *)
TypeOK ==
  /\ next \in [Cells -> Cells \cup {NULL}]
  /\ prev \in [Cells -> Cells \cup {NULL}]
  /\ ret \in Nodes \cup {NULL}
  /\ order \in Seq(Nodes)

(* No node is linked twice: a duplicate would close a loop that skips the  *)
(* rest of the run queue.                                                  *)
Distinct == \A i, j \in 1..Len(order) : order[i] = order[j] => i = j

(* Position i of the ring: the sentinel sits at both ends. *)
At(q, i) == IF i \in 1..Len(q) THEN q[i] ELSE m_head

(* Whatever the order of pushes, pops and removals, and whatever stale     *)
(* links re-pushed nodes carried, the next pointers walk from m_head       *)
(* through exactly the linked nodes and back, and the prev pointers walk   *)
(* the same ring backwards (list.cpp:19-57).                               *)
Ring ==
  initialised =>
    \A i \in 0..Len(order) :
      /\ next[At(order, i)] = At(order, i + 1)
      /\ prev[At(order, i + 1)] = At(order, i)

(* An uninitialised list has no linked nodes. *)
Uninitialised == ~initialised => order = <<>>

(* The inductive invariant: the three parts together. *)
IInv == TypeOK /\ Distinct /\ Ring /\ Uninitialised

(* The list implements a double-ended queue: each operation is the deque   *)
(* operation of its name and every pop, read off the pointers, returns the *)
(* node the deque returns.                                                 *)
Abstract == INSTANCE Deque WITH seq <- order
ImplementsDeque == Abstract!Spec
=============================================================================
