------------------------------- MODULE Deque -------------------------------
(***************************************************************************)
(* What kernel/lib/ds/list.h promises its callers, without pointers: a     *)
(* double-ended queue of distinct nodes.  A node may be linked only while  *)
(* it is not in the queue, and only a node of the queue may be removed.    *)
(***************************************************************************)
EXTENDS Naturals, Sequences

CONSTANTS Nodes,  \* the ListNode objects of the callers
          NULL    \* nullptr, what a pop from an empty queue returns

VARIABLES seq,    \* the nodes in the queue, front to back
          ret     \* what the last pop returned

vars == <<seq, ret>>

(* The nodes of a sequence, and a sequence with its k-th element taken out. *)
Members(q) == {q[i] : i \in 1..Len(q)}
Without(q, k) == [i \in 1..(Len(q) - 1) |-> IF i < k THEN q[i] ELSE q[i + 1]]

Init == seq = <<>> /\ ret = NULL

Clear == seq' = <<>> /\ UNCHANGED ret

PushFront(n) == n \notin Members(seq) /\ seq' = <<n>> \o seq /\ UNCHANGED ret
PushBack(n)  == n \notin Members(seq) /\ seq' = Append(seq, n) /\ UNCHANGED ret

PopFront ==
  \/ seq = <<>> /\ ret' = NULL /\ UNCHANGED seq
  \/ seq # <<>> /\ ret' = seq[1] /\ seq' = Without(seq, 1)

PopBack ==
  \/ seq = <<>> /\ ret' = NULL /\ UNCHANGED seq
  \/ seq # <<>> /\ ret' = seq[Len(seq)] /\ seq' = Without(seq, Len(seq))

Remove(k) == k \in 1..Len(seq) /\ seq' = Without(seq, k) /\ UNCHANGED ret

Next == \/ Clear \/ PopFront \/ PopBack
        \/ \E n \in Nodes : PushFront(n) \/ PushBack(n)
        \/ \E k \in 1..Len(seq) : Remove(k)

Spec == Init /\ [][Next]_vars
=============================================================================
