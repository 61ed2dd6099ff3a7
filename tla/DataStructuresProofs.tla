----------------------- MODULE DataStructuresProofs ------------------------
(***************************************************************************)
(* The linked list of IntrusiveList keeps its ring intact and implements a *)
(* double-ended queue, for any set of nodes; the bitmap of Bitmap is a set *)
(* of numbers, for any word size and any count.                            *)
(***************************************************************************)
EXTENDS DataStructures, FiniteSetTheorems, WellFoundedInduction, TLAPS

(* Taking one element out of a sequence of distinct nodes. *)
LEMMA WithoutProperties ==
  ASSUME NEW q \in Seq(Nodes), NEW k \in 1..Len(q)
  PROVE  /\ Without(q, k) \in Seq(Nodes)
         /\ Len(Without(q, k)) = Len(q) - 1
         /\ \A i \in 1..(Len(q) - 1) :
              Without(q, k)[i] = IF i < k THEN q[i] ELSE q[i + 1]
<1>1. Len(q) - 1 \in Nat
  OBVIOUS
<1>2. Without(q, k) \in [1..(Len(q) - 1) -> Nodes]
  BY DEF Without
<1> QED BY <1>1, <1>2 DEF Without

(* Unlinking the k-th node of a well-formed ring, whichever operation asks *)
(* for it, leaves a well-formed ring without that node.                    *)
LEMMA RemoveKeepsRing ==
  ASSUME IInv, initialised, NEW k \in 1..Len(order),
         remove(order[k]), order' = Without(order, k), ret' \in Nodes \cup {NULL}
  PROVE  IInv' /\ initialised'
<1> DEFINE N == Len(order)
           x == order[k]
           p == At(order, k - 1)
           s == At(order, k + 1)
           W == Without(order, k)
<1>1. /\ W \in Seq(Nodes) /\ Len(W) = N - 1
      /\ \A i \in 1..(N - 1) : W[i] = IF i < k THEN order[i] ELSE order[i + 1]
  BY WithoutProperties DEF IInv, TypeOK
<1>2. /\ N \in Nat /\ k \in 1..N /\ \A i \in 1..N : order[i] \in Nodes
      /\ \A i, j \in 1..N : order[i] = order[j] => i = j
  BY DEF IInv, TypeOK, Distinct
<1>3. prev[x] = p /\ next[x] = s /\ x \in Nodes /\ x # m_head
  <2>1. At(order, k) = x
    BY <1>2 DEF At
  <2>2. next[x] = s
    BY <1>2, <2>1 DEF IInv, Ring
  <2>3. k - 1 \in 0..N /\ (k - 1) + 1 = k
    BY <1>2
  <2>4. prev[At(order, (k - 1) + 1)] = p
    BY <2>3 DEF IInv, Ring
  <2> QED BY <1>2, <2>1, <2>2, <2>3, <2>4, ListAssumption
<1>4. p \in Cells /\ s \in Cells /\ x \in Cells
  BY <1>2, <1>3 DEF At, Cells
<1>5. next' = [next EXCEPT ![p] = s] /\ prev' = [prev EXCEPT ![s] = p]
  BY <1>3 DEF remove
<1>6. next' \in [Cells -> Cells \cup {NULL}] /\ prev' \in [Cells -> Cells \cup {NULL}]
  BY <1>4, <1>5 DEF IInv, TypeOK
<1>7. next'[m_head] # NULL
  BY <1>4, <1>5, ListAssumption DEF IInv, TypeOK, initialised, Cells
<1>8. Distinct'
  BY <1>1, <1>2 DEF Distinct
<1>9. ASSUME NEW i \in 0..(N - 1)
      PROVE  next'[At(W, i)] = At(W, i + 1) /\ prev'[At(W, i + 1)] = At(W, i)
  <2>1. CASE i < k - 1
    <3>1. At(W, i) = At(order, i) /\ At(W, i + 1) = At(order, i + 1)
      BY <1>1, <1>2, <2>1 DEF At
    <3>2. next[At(order, i)] = At(order, i + 1) /\ prev[At(order, i + 1)] = At(order, i)
      BY <1>2 DEF IInv, Ring
    <3>3. At(order, i) # p /\ At(order, i + 1) # s
      BY <1>2, <2>1, ListAssumption DEF At
    <3>4. At(order, i) \in Cells /\ At(order, i + 1) \in Cells
      BY <1>2 DEF At, Cells
    <3> QED BY <1>5, <3>1, <3>2, <3>3, <3>4 DEF IInv, TypeOK
  <2>2. CASE i = k - 1
    <3>1. At(W, i) = p /\ At(W, i + 1) = s
      BY <1>1, <1>2, <2>2 DEF At
    <3> QED BY <1>4, <1>5, <3>1 DEF IInv, TypeOK
  <2>3. CASE i > k - 1
    <3>1. At(W, i) = At(order, i + 1) /\ At(W, i + 1) = At(order, i + 2)
      <4> HIDE DEF N, W
      <4>1. i \in 1..(N - 1) /\ ~(i < k) /\ i + 1 \in 1..N /\ i + 2 # 0
        BY <1>2, <2>3
      <4>2. At(W, i) = At(order, i + 1)
        BY <1>1, <4>1 DEF At, N
      <4>3. At(W, i + 1) = At(order, i + 2)
        <5>1. CASE i = N - 1
          BY <1>1, <4>1, <5>1 DEF At, N
        <5>2. CASE i < N - 1
          BY <1>1, <4>1, <5>2 DEF At, N
        <5>3. N \in Nat
          BY <1>2
        <5> QED BY <4>1, <5>1, <5>2, <5>3
      <4> QED BY <4>2, <4>3
    <3>2. i + 1 \in 0..N /\ (i + 1) + 1 = i + 2
      BY <1>2
    <3>3. next[At(order, i + 1)] = At(order, i + 2) /\ prev[At(order, i + 2)] = At(order, i + 1)
      BY <1>2, <3>2 DEF IInv, Ring
    <3>4. At(order, i + 1) # p /\ At(order, i + 2) # s
      BY <1>2, <2>3, ListAssumption DEF At
    <3>5. At(order, i + 1) \in Cells /\ At(order, i + 2) \in Cells
      BY <1>2 DEF At, Cells
    <3> QED BY <1>5, <3>1, <3>3, <3>4, <3>5 DEF IInv, TypeOK
  <2> QED BY <1>2, <2>1, <2>2, <2>3
<1>10. Ring'
  BY <1>1, <1>9 DEF Ring
<1> QED BY <1>1, <1>6, <1>7, <1>8, <1>10 DEF IInv, TypeOK, Uninitialised, initialised

(* The links a push starts from: the new node is none of the linked ones. *)
LEMMA FreshNode ==
  ASSUME TypeOK, Distinct, NEW n \in Nodes, n \notin Members(order)
  PROVE  /\ Len(order) \in Nat
         /\ \A i \in 1..Len(order) : order[i] \in Nodes /\ order[i] # n
         /\ \A i, j \in 1..Len(order) : order[i] = order[j] => i = j
BY DEF TypeOK, Distinct, Members

(* Linking a new node at the back of a well-formed ring. *)
LEMMA PushBackKeepsRing ==
  ASSUME IInv, initialised, NEW n \in Nodes, n \notin Members(order),
         push_back(n), order' = Append(order, n), ret' \in Nodes \cup {NULL}
  PROVE  IInv' /\ initialised'
<1> DEFINE N == Len(order)
           A == Append(order, n)
           l == At(order, N)
<1>1. /\ A \in Seq(Nodes) /\ Len(A) = N + 1 /\ A[N + 1] = n
      /\ \A i \in 1..N : A[i] = order[i]
  BY DEF IInv, TypeOK
<1>2. /\ N \in Nat /\ \A i \in 1..N : order[i] \in Nodes /\ order[i] # n
      /\ \A i, j \in 1..N : order[i] = order[j] => i = j
  BY FreshNode DEF IInv
<1>3. prev[m_head] = l /\ l \in Cells /\ l # n /\ n # m_head /\ n \in Cells
  <2>1. At(order, N + 1) = m_head
    BY <1>2 DEF At
  <2>2. prev[At(order, N + 1)] = At(order, N)
    BY <1>2 DEF IInv, Ring
  <2> QED BY <1>2, <2>1, <2>2, ListAssumption DEF At, Cells
<1>4. /\ next' = [next EXCEPT ![n] = m_head, ![l] = n]
      /\ prev' = [prev EXCEPT ![n] = l, ![m_head] = n]
  BY <1>3 DEF push_back
<1>5. next' \in [Cells -> Cells \cup {NULL}] /\ prev' \in [Cells -> Cells \cup {NULL}]
  BY <1>3, <1>4 DEF IInv, TypeOK, Cells
<1>6. next'[m_head] # NULL
  BY <1>3, <1>4, ListAssumption DEF IInv, TypeOK, initialised, Cells
<1>7. Distinct'
  BY <1>1, <1>2 DEF Distinct
<1>8. ASSUME NEW i \in 0..(N + 1)
      PROVE  next'[At(A, i)] = At(A, i + 1) /\ prev'[At(A, i + 1)] = At(A, i)
  <2>1. CASE i < N
    <3>1. At(A, i) = At(order, i) /\ At(A, i + 1) = At(order, i + 1)
      BY <1>1, <1>2, <2>1 DEF At
    <3>2. next[At(order, i)] = At(order, i + 1) /\ prev[At(order, i + 1)] = At(order, i)
      BY <1>2, <2>1 DEF IInv, Ring
    <3>3. /\ At(order, i) # l /\ At(order, i) # n
          /\ At(order, i + 1) # m_head /\ At(order, i + 1) # n
      BY <1>2, <1>3, <2>1, ListAssumption DEF At
    <3>4. At(order, i) \in Cells /\ At(order, i + 1) \in Cells
      BY <1>2 DEF At, Cells
    <3> QED BY <1>3, <1>4, <3>1, <3>2, <3>3, <3>4 DEF IInv, TypeOK
  <2>2. CASE i = N
    <3>1. At(A, i) = l /\ At(A, i + 1) = n
      BY <1>1, <1>2, <2>2 DEF At
    <3> QED BY <1>3, <1>4, <3>1 DEF IInv, TypeOK, Cells
  <2>3. CASE i = N + 1
    <3>1. At(A, i) = n /\ At(A, i + 1) = m_head
      BY <1>1, <1>2, <2>3 DEF At
    <3> QED BY <1>3, <1>4, <3>1 DEF IInv, TypeOK, Cells
  <2> QED BY <1>2, <2>1, <2>2, <2>3
<1>9. Ring'
  BY <1>1, <1>8 DEF Ring
<1> QED BY <1>1, <1>5, <1>6, <1>7, <1>9 DEF IInv, TypeOK, Uninitialised, initialised

(* Linking a new node at the front of a well-formed ring. *)
LEMMA PushFrontKeepsRing ==
  ASSUME IInv, initialised, NEW n \in Nodes, n \notin Members(order),
         push_front(n), order' = <<n>> \o order, ret' \in Nodes \cup {NULL}
  PROVE  IInv' /\ initialised'
<1> DEFINE N == Len(order)
           A == <<n>> \o order
           f == At(order, 1)
<1>1. /\ A \in Seq(Nodes) /\ Len(A) = N + 1 /\ A[1] = n
      /\ \A i \in 1..N : A[i + 1] = order[i]
  BY DEF IInv, TypeOK
<1>2. /\ N \in Nat /\ \A i \in 1..N : order[i] \in Nodes /\ order[i] # n
      /\ \A i, j \in 1..N : order[i] = order[j] => i = j
  BY FreshNode DEF IInv
<1>3. next[m_head] = f /\ f \in Cells /\ f # n /\ n # m_head /\ n \in Cells
  <2>1. At(order, 0) = m_head /\ 0 \in 0..N
    BY <1>2 DEF At
  <2>2. next[At(order, 0)] = At(order, 0 + 1)
    BY <2>1 DEF IInv, Ring
  <2> QED BY <1>2, <2>1, <2>2, ListAssumption DEF At, Cells
<1>4. /\ prev' = [prev EXCEPT ![n] = m_head, ![f] = n]
      /\ next' = [next EXCEPT ![n] = f, ![m_head] = n]
  BY <1>3 DEF push_front
<1>5. next' \in [Cells -> Cells \cup {NULL}] /\ prev' \in [Cells -> Cells \cup {NULL}]
  BY <1>3, <1>4 DEF IInv, TypeOK, Cells
<1>6. next'[m_head] # NULL
  BY <1>3, <1>4, ListAssumption DEF IInv, TypeOK, initialised, Cells
<1>7. Distinct'
  <2> SUFFICES ASSUME NEW i \in 1..(N + 1), NEW j \in 1..(N + 1), A[i] = A[j]
               PROVE  i = j
    BY <1>1 DEF Distinct
  <2>1. \A m \in 2..(N + 1) : m - 1 \in 1..N /\ A[m] = order[m - 1]
    BY <1>1, <1>2
  <2> HIDE DEF A
  <2>2. CASE i = 1 \/ j = 1
    BY <1>1, <1>2, <2>1, <2>2, SMTT(30)
  <2>3. CASE i \in 2..(N + 1) /\ j \in 2..(N + 1)
    <3>1. i - 1 = j - 1
      BY <1>2, <2>1, <2>3
    <3> QED BY <3>1
  <2> QED BY <1>2, <2>2, <2>3
<1>8. ASSUME NEW i \in 0..(N + 1)
      PROVE  next'[At(A, i)] = At(A, i + 1) /\ prev'[At(A, i + 1)] = At(A, i)
  <2>1. CASE i > 1
    <3>0. i - 1 \in 1..N /\ A[i] = order[i - 1] /\ (i <= N => A[i + 1] = order[i])
      BY <1>1, <1>2, <2>1
    <3>1. At(A, i) = At(order, i - 1) /\ At(A, i + 1) = At(order, i)
      BY <1>1, <1>2, <2>1, <3>0 DEF At
    <3>2. next[At(order, i - 1)] = At(order, i) /\ prev[At(order, i)] = At(order, i - 1)
      <4>1. i - 1 \in 0..N /\ (i - 1) + 1 = i
        BY <1>2, <3>0
      <4> QED BY <4>1 DEF IInv, Ring
    <3>3. /\ At(order, i - 1) # m_head /\ At(order, i - 1) # n
          /\ At(order, i) # f /\ At(order, i) # n
      BY <1>2, <1>3, <2>1, <3>0, ListAssumption DEF At
    <3>4. At(order, i - 1) \in Cells /\ At(order, i) \in Cells
      BY <1>2 DEF At, Cells
    <3> QED BY <1>3, <1>4, <3>1, <3>2, <3>3, <3>4 DEF IInv, TypeOK
  <2>2. CASE i = 1
    <3>1. At(A, i) = n /\ At(A, i + 1) = f
      <4>1. N > 0 => A[2] = order[1]
        BY <1>1, <1>2
      <4> QED BY <1>1, <1>2, <2>2, <4>1 DEF At
    <3> QED BY <1>3, <1>4, <3>1 DEF IInv, TypeOK, Cells
  <2>3. CASE i = 0
    <3>1. At(A, i) = m_head /\ At(A, i + 1) = n
      BY <1>1, <1>2, <2>3 DEF At
    <3> QED BY <1>3, <1>4, <3>1 DEF IInv, TypeOK, Cells
  <2> QED BY <1>2, <2>1, <2>2, <2>3
<1>9. Ring'
  BY <1>1, <1>8 DEF Ring
<1> QED BY <1>1, <1>5, <1>6, <1>7, <1>9 DEF IInv, TypeOK, Uninitialised, initialised

(* A pop finds the list empty exactly when nothing is linked, and the node *)
(* it unlinks is the first or the last of the order.                       *)
LEMMA Ends ==
  ASSUME IInv, initialised
  PROVE  /\ empty <=> order = <<>>
         /\ order # <<>> => /\ 1 \in 1..Len(order) /\ Len(order) \in 1..Len(order)
                            /\ next[m_head] = order[1]
                            /\ prev[m_head] = order[Len(order)]
<1>1. Len(order) \in Nat /\ (order # <<>> => Len(order) > 0)
      /\ \A i \in 1..Len(order) : order[i] \in Nodes
  BY DEF IInv, TypeOK
<1>2. next[At(order, 0)] = At(order, 0 + 1)
  BY <1>1 DEF IInv, Ring
<1>3. prev[At(order, Len(order) + 1)] = At(order, Len(order))
  BY <1>1 DEF IInv, Ring
<1> QED BY <1>1, <1>2, <1>3, ListAssumption DEF At, empty

(* The inductive invariant of the list is preserved by every operation a   *)
(* caller that keeps the contract of list.h can make.                      *)
LEMMA NextKeepsInv ==
  ASSUME IInv, [Next]_vars
  PROVE  IInv'
<1>1. CASE DoInit
  <2>1. m_head \in Cells
    BY DEF Cells
  <2>2. /\ next' = [next EXCEPT ![m_head] = m_head]
        /\ prev' = [prev EXCEPT ![m_head] = m_head]
        /\ order' = <<>> /\ ret' = ret
    BY <1>1 DEF DoInit, init
  <2>3. TypeOK'
    BY <2>1, <2>2 DEF IInv, TypeOK
  <2>4. next'[m_head] = m_head /\ prev'[m_head] = m_head
    BY <2>1, <2>2 DEF IInv, TypeOK
  <2>5. Len(order') = 0
    BY <2>2
  <2>6. Ring'
    BY <2>2, <2>4, <2>5 DEF Ring, At
  <2>7. Distinct' /\ Uninitialised'
    BY <2>2, <2>5 DEF Distinct, Uninitialised
  <2> QED BY <2>3, <2>6, <2>7 DEF IInv
<1>2. CASE DoPushNull
  BY <1>2 DEF DoPushNull, push_null, IInv, TypeOK, Distinct, Ring, At,
              Uninitialised, initialised
<1>3. CASE DoPopFront
  <2>1. CASE order = <<>>
    BY <1>3, <2>1, Ends DEF DoPopFront, pop_front, IInv, TypeOK, Distinct, Ring,
                            At, Uninitialised, initialised
  <2>2. CASE order # <<>>
    <3>1. /\ 1 \in 1..Len(order) /\ ret' = order[1] /\ remove(order[1])
          /\ order' = Without(order, 1) /\ initialised
      BY <1>3, <2>2, Ends DEF DoPopFront, pop_front
    <3>2. ret' \in Nodes \cup {NULL}
      BY <3>1 DEF IInv, TypeOK
    <3> QED BY <3>1, <3>2, RemoveKeepsRing
  <2> QED BY <2>1, <2>2
<1>4. CASE DoPopBack
  <2>1. CASE order = <<>>
    BY <1>4, <2>1, Ends DEF DoPopBack, pop_back, IInv, TypeOK, Distinct, Ring,
                            At, Uninitialised, initialised
  <2>2. CASE order # <<>>
    <3> DEFINE k == Len(order)
    <3>1. /\ k \in 1..Len(order) /\ ret' = order[k] /\ remove(order[k])
          /\ order' = Without(order, k) /\ initialised
      BY <1>4, <2>2, Ends DEF DoPopBack, pop_back
    <3>2. ret' \in Nodes \cup {NULL}
      BY <3>1 DEF IInv, TypeOK
    <3> QED BY <3>1, <3>2, RemoveKeepsRing
  <2> QED BY <2>1, <2>2
<1>5. ASSUME NEW n \in Nodes, DoPushFront(n)
      PROVE  IInv'
  BY <1>5, PushFrontKeepsRing DEF DoPushFront, IInv, TypeOK
<1>6. ASSUME NEW n \in Nodes, DoPushBack(n)
      PROVE  IInv'
  BY <1>6, PushBackKeepsRing DEF DoPushBack, IInv, TypeOK
<1>7. ASSUME NEW k \in 1..Len(order), DoRemove(k)
      PROVE  IInv'
  BY <1>7, RemoveKeepsRing DEF DoRemove, IInv, TypeOK
<1>8. CASE UNCHANGED vars
  BY <1>8 DEF vars, IInv, TypeOK, Distinct, Ring, At, Uninitialised, initialised
<1> QED BY <1>1, <1>2, <1>3, <1>4, <1>5, <1>6, <1>7, <1>8 DEF Next

(* The zeroed list satisfies the invariant: it is uninitialised and holds   *)
(* no node.                                                                 *)
LEMMA InitInv ==
  ASSUME Init
  PROVE  IInv
<1>1. next[m_head] = NULL
  BY DEF Init, Cells
<1>2. order \in Seq(Nodes) /\ Len(order) = 0
  BY DEF Init
<1> QED BY <1>1, <1>2 DEF Init, IInv, TypeOK, Distinct, Ring, Uninitialised, initialised

(* For any set of nodes the two pointer rings of list.cpp stay complete and *)
(* mutually inverse, through any sequence of pushes, pops and removals.     *)
THEOREM ListRing == Spec => []Ring
<1>1. Init => IInv
  BY InitInv
<1>2. IInv /\ [Next]_vars => IInv'
  BY NextKeepsInv
<1>3. IInv => Ring
  BY DEF IInv
<1> QED BY <1>1, <1>2, <1>3, PTL DEF Spec

(* One operation on the pointers is one operation on the deque. *)
LEMMA StepSimulation ==
  ASSUME IInv, [Next]_vars
  PROVE  [Abstract!Next]_(Abstract!vars)
<1> USE DEF Abstract!Next, Abstract!vars
<1>w. \A q, k : Abstract!Without(q, k) = Without(q, k)
  BY DEF Abstract!Without, Without
<1>m. Abstract!Members(order) = Members(order)
  BY DEF Abstract!Members, Members
<1>1. CASE DoInit
  BY <1>1 DEF DoInit, Abstract!Clear
<1>2. CASE DoPushNull
  BY <1>2 DEF DoPushNull
<1>3. CASE DoPopFront
  <2>1. initialised
    BY <1>3 DEF DoPopFront
  <2> QED BY <1>3, <1>w, <2>1, Ends DEF DoPopFront, pop_front, Abstract!PopFront
<1>4. CASE DoPopBack
  <2>1. initialised
    BY <1>4 DEF DoPopBack
  <2> QED BY <1>4, <1>w, <2>1, Ends DEF DoPopBack, pop_back, Abstract!PopBack
<1>5. ASSUME NEW n \in Nodes, DoPushFront(n)
      PROVE  Abstract!PushFront(n)
  BY <1>5, <1>m DEF DoPushFront, Abstract!PushFront
<1>6. ASSUME NEW n \in Nodes, DoPushBack(n)
      PROVE  Abstract!PushBack(n)
  BY <1>6, <1>m DEF DoPushBack, Abstract!PushBack
<1>7. ASSUME NEW k \in 1..Len(order), DoRemove(k)
      PROVE  Abstract!Remove(k)
  BY <1>7, <1>w DEF DoRemove, Abstract!Remove
<1>8. CASE UNCHANGED vars
  BY <1>8 DEF vars
<1> QED BY <1>1, <1>2, <1>3, <1>4, <1>5, <1>6, <1>7, <1>8 DEF Next

(* The linked list implements the double-ended queue its callers rely on:  *)
(* the node each pop returns, read off the pointers, is the one at that    *)
(* end of the queue.                                                       *)
THEOREM ListImplementsDeque == Spec => ImplementsDeque
<1>1. Init => Abstract!Init
  BY DEF Init, Abstract!Init
<1>2. Init => IInv
  BY InitInv
<1>3. IInv /\ [Next]_vars => IInv'
  BY NextKeepsInv
<1>4. IInv /\ [Next]_vars => [Abstract!Next]_(Abstract!vars)
  BY StepSimulation
<1> QED BY <1>1, <1>2, <1>3, <1>4, PTL DEF Spec, ImplementsDeque, Abstract!Spec

(* The pointers and the history keep their types: no link ever leaves the  *)
(* nodes of the list, and pop returns a node or nullptr (list.cpp:6-57).   *)
THEOREM TypesOfList == Spec => []TypeOK
<1>1. Init => IInv
  BY InitInv
<1>2. IInv /\ [Next]_vars => IInv'
  BY NextKeepsInv
<1>3. IInv => TypeOK
  BY DEF IInv
<1> QED BY <1>1, <1>2, <1>3, PTL DEF Spec

(* What holds of the list by itself holds of it beside the bitmap. *)
LEMMA ListInside == DSpec => Spec
<1>1. DInit => Init
  BY DEF DInit
<1>2. [DNext]_dvars => [Next]_vars
  BY DEF DNext, OnList, OnBitmap, ClearAll, Set, Clear, dvars
<1> QED BY <1>1, <1>2, PTL DEF DSpec, Spec

-----------------------------------------------------------------------------
(* Words and bits *)

K == kBitsPerWord

LEMMA Arithmetic ==
  /\ \A q \in Nat, r \in Offsets : (K * q + r) \div K = q /\ (K * q + r) % K = r
  /\ \A a \in Nat : /\ a \div K \in Nat /\ a % K \in Offsets
                    /\ K * (a \div K) \in Nat
                    /\ a = K * (a \div K) + (a % K)
<1>0. K \in Nat \ {0}
  BY BitmapAssumption DEF K
<1>1. ASSUME NEW q \in Nat, NEW r \in 0..(K - 1)
      PROVE  (K * q + r) \div K = q /\ (K * q + r) % K = r
  BY <1>0
<1>2. ASSUME NEW a \in Nat
      PROVE  /\ a \div K \in Nat /\ a % K \in 0..(K - 1) /\ K * (a \div K) \in Nat
             /\ a = K * (a \div K) + (a % K)
  <2>1. a \div K \in Int /\ a % K \in 0..(K - 1)
    BY <1>0
  <2>2. a = K * (a \div K) + (a % K)
    BY <1>0
  <2>3. a \div K >= 0
    BY <1>0, <2>1, <2>2
  <2>4. K * (a \div K) \in Nat
    BY <1>0, <2>1, <2>3
  <2> QED BY <2>1, <2>2, <2>3, <2>4
<1>3. Offsets = 0..(K - 1)
  BY DEF Offsets, K
<1> QED BY <1>1, <1>2, <1>3

LEMMA Multiples ==
  ASSUME NEW i \in Nat, NEW j \in Nat
  PROVE  /\ K * i \in Nat
         /\ i <= j => K * i <= K * j
         /\ i < j => K * i + K <= K * j
<1>0. K \in Nat \ {0}
  BY BitmapAssumption DEF K
<1>1. K * i \in Nat /\ K * j \in Nat
  BY <1>0
<1>2. i <= j => K * i <= K * j
  BY <1>0
<1>3. ASSUME i + 1 <= j PROVE K * i + K <= K * j
  BY <1>0, <1>3
<1> QED BY <1>1, <1>2, <1>3

(* A set of numbers that is not empty has a least one. *)
LEMMA Least ==
  ASSUME NEW S \in SUBSET Nat, S # {}
  PROVE  Min(S) \in S /\ \A n \in S : Min(S) <= n
<1>1. IsWellFoundedOn(OpToRel(<, Nat), Nat)
  BY NatLessThanWellFounded
<1>2. \A x, y \in Nat : y < x => <<y, x>> \in OpToRel(<, Nat)
  BY DEF OpToRel
<1>3. PICK R : IsWellFoundedOn(R, Nat) /\ \A x, y \in Nat : y < x => <<y, x>> \in R
  BY <1>1, <1>2, Zenon
<1>4. PICK x \in S : \A y \in S : ~(<<y, x>> \in R)
  BY <1>3, WFMin
<1>5. ASSUME NEW y \in S PROVE x <= y
  <2>1. x \in Nat /\ y \in Nat
    OBVIOUS
  <2>2. ~(y < x)
    BY <1>3, <1>4, <2>1, Zenon
  <2> QED BY <2>1, <2>2
<1> QED BY <1>5 DEF Min

(* The last word of n bits begins below n and ends at or behind it. *)
LEMMA WordCount ==
  ASSUME NEW n \in Nat
  PROVE  /\ word_count_for_bits(n) \in Nat
         /\ n <= K * word_count_for_bits(n)
         /\ K * word_count_for_bits(n) < n + K
         /\ n = 0 => word_count_for_bits(n) = 0
<1>0. K \in Nat \ {0}
  BY BitmapAssumption DEF K
<1> DEFINE c == word_count_for_bits(n)
           a == n + K - 1
           r == a % K
<1>1. a \in Nat /\ c = a \div K
  BY <1>0 DEF word_count_for_bits, K
<1>2. c \in Nat /\ r \in Offsets /\ K * c \in Nat /\ a = K * c + r
  BY <1>1, Arithmetic
<1>3. a = n + K - 1 /\ r \in 0..(K - 1)
  BY <1>2 DEF Offsets, K
<1> HIDE DEF c, a, r
<1>4. n <= K * c /\ K * c < n + K
  BY <1>0, <1>2, <1>3
<1>5. n = 0 => c = 0
  <2> SUFFICES ASSUME n = 0, c # 0 PROVE FALSE
    OBVIOUS
  <2>1. K * 0 + K <= K * c
    BY <1>2, Multiples
  <2>2. K * 0 = 0
    BY <1>0
  <2>3. K <= K * c /\ K * c < K
    BY <1>0, <1>2, <1>4, <2>1, <2>2
  <2> QED BY <1>0, <1>2, <2>3
<1> QED BY <1>2, <1>4, <1>5 DEF c

LEMMA BitmapType ==
  ASSUME NEW m \in Bitmaps
  PROVE  /\ m.m_words \in [0..(Words - 1) -> SUBSET Offsets]
         /\ m.m_bit_count \in Counts /\ m.m_bit_count \in Nat
         /\ m.m_bit_count <= K * Words /\ K * Words \in Nat
         /\ word_count_for_bits(m.m_bit_count) <= Words
<1>0. K \in Nat \ {0} /\ Words \in Nat
  BY BitmapAssumption DEF K
<1>1. m.m_words \in [0..(Words - 1) -> SUBSET Offsets] /\ m.m_bit_count \in Counts
  BY DEF Bitmaps
<1>2. m.m_bit_count \in 0..(Words * K)
  BY <1>1, BitmapAssumption DEF K
<1>3. Words * K = K * Words /\ K * Words \in Nat
  BY <1>0
<1> DEFINE n == m.m_bit_count
           c == word_count_for_bits(n)
<1>4. n \in Nat /\ n <= K * Words
  BY <1>2, <1>3
<1>5. c \in Nat /\ K * c < n + K /\ K * c \in Nat
  BY <1>4, WordCount, Multiples
<1>6. ~(Words < c)
  <2> HIDE DEF n, c
  <2> SUFFICES ASSUME Words < c PROVE FALSE
    OBVIOUS
  <2>1. K * Words + K <= K * c
    BY <1>0, <1>5, Multiples
  <2> QED BY <1>0, <1>3, <1>4, <1>5, <2>1
<1>7. c <= Words
  BY <1>0, <1>5, <1>6
<1> QED BY <1>1, <1>3, <1>4, <1>7

(* A bit has one word and one place in it. *)
LEMMA Position ==
  /\ \A b \in Nat : /\ word_index_for_bit(b) \in Nat /\ bit_offset_for_bit(b) \in Offsets
                    /\ K * word_index_for_bit(b) \in Nat
                    /\ b = K * word_index_for_bit(b) + bit_offset_for_bit(b)
  /\ \A w \in Nat, o \in Offsets : /\ word_index_for_bit(K * w + o) = w
                                   /\ bit_offset_for_bit(K * w + o) = o
                                   /\ K * w + o \in Nat /\ w * kBitsPerWord + o = K * w + o
<1>0. K \in Nat \ {0} /\ Offsets = 0..(K - 1)
  BY BitmapAssumption DEF K, Offsets
<1>1. \A b : word_index_for_bit(b) = b \div K /\ bit_offset_for_bit(b) = b % K
  BY DEF word_index_for_bit, bit_offset_for_bit, K
<1>2. ASSUME NEW w \in Nat, NEW o \in Offsets
      PROVE  K * w + o \in Nat /\ w * kBitsPerWord + o = K * w + o
  <2>1. K * w \in Nat /\ w * K = K * w
    BY <1>0
  <2> QED BY <1>0, <2>1 DEF K
<1> QED BY <1>1, <1>2, Arithmetic

(* The bits of n numbers lie in the words for n bits. *)
LEMMA InWords ==
  ASSUME NEW n \in Nat, NEW b \in 0..(n - 1)
  PROVE  word_index_for_bit(b) \in 0..(word_count_for_bits(n) - 1)
<1>0. K \in Nat \ {0}
  BY BitmapAssumption DEF K
<1> DEFINE w == word_index_for_bit(b)
           o == bit_offset_for_bit(b)
           c == word_count_for_bits(n)
<1>1. w \in Nat /\ o \in 0..(K - 1) /\ K * w \in Nat /\ b = K * w + o /\ b < n
  BY Position DEF Offsets, K
<1>2. c \in Nat /\ n <= K * c /\ K * c \in Nat
  BY WordCount, Multiples
<1> HIDE DEF w, o, c
<1>3. ~(c <= w)
  <2> SUFFICES ASSUME c <= w PROVE FALSE
    OBVIOUS
  <2>1. K * c <= K * w
    BY <1>1, <1>2, Multiples
  <2> QED BY <1>0, <1>1, <1>2, <2>1
<1>4. w \in 0..(c - 1)
  BY <1>1, <1>2, <1>3
<1> QED BY <1>4 DEF w, c

(* A bit of memory lies in one of the words. *)
LEMMA BitInWords ==
  ASSUME NEW b \in Bit
  PROVE  /\ b \in Nat /\ word_index_for_bit(b) \in 0..(Words - 1)
         /\ word_index_for_bit(b) \in Nat /\ bit_offset_for_bit(b) \in Offsets
         /\ K * word_index_for_bit(b) \in Nat
         /\ b = K * word_index_for_bit(b) + bit_offset_for_bit(b)
<1> DEFINE w == word_index_for_bit(b)
           o == bit_offset_for_bit(b)
<1>0. K \in Nat \ {0} /\ kBitsPerWord = K /\ Words \in Nat
  BY BitmapAssumption DEF K
<1>1. b \in Nat
  BY DEF Bit
<1>2. w \in Nat /\ o \in Offsets /\ o \in 0..(K - 1) /\ K * w \in Nat /\ b = K * w + o
  BY <1>1, Position DEF Offsets, K
<1>3. b < K * Words /\ K * Words \in Nat
  <2>1. Words * kBitsPerWord = K * Words /\ K * Words \in Nat
    BY <1>0
  <2> QED BY <2>1 DEF Bit
<1> HIDE DEF w, o
<1>4. ~(Words <= w)
  <2> SUFFICES ASSUME Words <= w PROVE FALSE
    OBVIOUS
  <2>1. K * Words <= K * w
    BY <1>0, <1>2, Multiples
  <2> QED BY <1>0, <1>2, <1>3, <2>1
<1>5. w \in 0..(Words - 1)
  BY <1>0, <1>2, <1>4
<1> QED BY <1>1, <1>2, <1>5 DEF w, o

(* The row of bits, read with the index functions of the code. *)
LEMMA RowIs ==
  ASSUME NEW m \in Bitmaps
  PROVE  Row(m) = {b \in Bit : bit_offset_for_bit(b) \in m.m_words[word_index_for_bit(b)]}
<1>1. DOMAIN m.m_words = 0..(Words - 1) /\ Words \in Nat
  BY BitmapType, BitmapAssumption
<1>2. ASSUME NEW b \in Bit,
             bit_offset_for_bit(b) \in m.m_words[word_index_for_bit(b)]
      PROVE  b \in Row(m)
  <2> DEFINE w == word_index_for_bit(b)
             o == bit_offset_for_bit(b)
  <2>1. /\ w \in 0..(Words - 1) /\ o \in Offsets /\ b = K * w + o
        /\ w * kBitsPerWord + o = K * w + o
    BY BitInWords, Position
  <2>2. w \in DOMAIN m.m_words /\ b = w * kBitsPerWord + o
    BY <1>1, <2>1
  <2> QED BY <1>2, <2>1, <2>2 DEF Row
<1>3. ASSUME NEW b \in Row(m)
      PROVE  b \in Bit /\ bit_offset_for_bit(b) \in m.m_words[word_index_for_bit(b)]
  <2>1. PICK w \in DOMAIN m.m_words, o \in Offsets :
          b = w * kBitsPerWord + o /\ o \in m.m_words[w]
    BY DEF Row
  <2>2. w \in Nat
    BY <1>1
  <2>3. b = K * w + o /\ word_index_for_bit(K * w + o) = w /\ bit_offset_for_bit(K * w + o) = o
    BY <2>1, <2>2, Position
  <2> QED BY <2>1, <2>3 DEF Row
<1> QED BY <1>2, <1>3

LEMMA SetOfIs ==
  ASSUME NEW m \in Bitmaps
  PROVE  SetOf(m) = {b \in 0..(m.m_bit_count - 1) :
                       bit_offset_for_bit(b) \in m.m_words[word_index_for_bit(b)]}
<1>1. m.m_bit_count \in Nat /\ m.m_bit_count <= K * Words /\ K * Words \in Nat
  BY BitmapType
<1>2. Words * kBitsPerWord = K * Words
  BY BitmapAssumption DEF K
<1>3. \A b \in 0..(m.m_bit_count - 1) : b \in Bit
  BY <1>1, <1>2 DEF Bit
<1> QED BY <1>3, RowIs DEF SetOf

LEMMA TestIsMember ==
  ASSUME NEW m \in Bitmaps, NEW b \in Nat
  PROVE  test(m, b) <=> b \in SetOf(m)
<1>1. m.m_bit_count \in Nat
  BY BitmapType
<1>2. b \in 0..(m.m_bit_count - 1) <=> b < m.m_bit_count
  BY <1>1
<1> QED BY <1>2, SetOfIs DEF test

-----------------------------------------------------------------------------
(* find_first_zero *)

Missing(m) == (0..(m.m_bit_count - 1)) \ SetOf(m)
Zeros(m, w) == Offsets \ masked(m, w)

(* Behind the mask a word has exactly the numbers missing in it as zeros. *)
LEMMA ZerosAreMissing ==
  ASSUME NEW m \in Bitmaps,
         NEW w \in 0..(word_count_for_bits(m.m_bit_count) - 1), NEW o \in Offsets
  PROVE  o \in Zeros(m, w) <=> K * w + o \in Missing(m)
<1> DEFINE n == m.m_bit_count
           c == word_count_for_bits(n)
           v == n % K
           b == K * w + o
<1>0. K \in Nat \ {0} /\ o \in 0..(K - 1) /\ kBitsPerWord = K
  BY BitmapAssumption DEF K, Offsets
<1>1. n \in Nat /\ c \in Nat /\ K * c \in Nat /\ n <= K * c /\ K * c < n + K
  BY BitmapType, WordCount, Multiples
<1>2. /\ w \in Nat /\ K * w \in Nat /\ b \in Nat
      /\ word_index_for_bit(b) = w /\ bit_offset_for_bit(b) = o
  BY <1>1, Position, Multiples
<1>3. b \in Missing(m) <=> b < n /\ o \notin m.m_words[w]
  <2>1. b \in 0..(n - 1) <=> b < n
    BY <1>1, <1>2
  <2> QED BY <1>2, <2>1, SetOfIs DEF Missing
<1>4. masked(m, w) = m.m_words[w] \cup IF w = c - 1 /\ v # 0 THEN v..(K - 1) ELSE {}
  BY DEF masked, K
<1>5. CASE w = c - 1 /\ v # 0
  <2>1. n = K * (n \div K) + v /\ n \div K \in Nat /\ v \in 0..(K - 1) /\ K * (n \div K) \in Nat
    BY <1>1, Arithmetic DEF Offsets, K
  <2>2. n \div K = w
    <3> DEFINE q == n \div K
    <3>1. n = K * q + v /\ q \in Nat /\ K * q \in Nat
      BY <2>1
    <3> HIDE DEF q, v, c, n
    <3>2. K * c = K * w + K
      BY <1>0, <1>1, <1>2, <1>5
    <3>3. ~(q < w)
      <4> SUFFICES ASSUME q < w PROVE FALSE
        OBVIOUS
      <4>1. K * q + K <= K * w
        BY <1>2, <3>1, Multiples
      <4> QED BY <1>0, <1>1, <1>2, <2>1, <3>1, <3>2, <4>1
    <3>4. ~(w < q)
      <4> SUFFICES ASSUME w < q PROVE FALSE
        OBVIOUS
      <4>1. K * w + K <= K * q
        BY <1>2, <3>1, Multiples
      <4>2. v > 0 /\ v \in Nat
        BY <1>5, <2>1
      <4> DEFINE x == K * q
                 y == K * w + K
      <4>3. x \in Nat /\ y \in Nat /\ y <= x /\ n = x + v /\ n <= y
        BY <1>0, <1>1, <1>2, <3>1, <3>2, <4>1
      <4> HIDE DEF x, y
      <4> QED BY <4>2, <4>3
    <3>5. q = w
      BY <1>2, <3>1, <3>3, <3>4
    <3> QED BY <3>5 DEF q
  <2>3. b < n <=> o < v
    <3> HIDE DEF v, n
    <3> QED BY <1>0, <1>2, <2>1, <2>2
  <2>4. o \in v..(K - 1) <=> ~(o < v)
    <3> HIDE DEF v
    <3> QED BY <1>0, <2>1
  <2> QED BY <1>3, <1>4, <1>5, <2>3, <2>4 DEF Zeros
<1>6. CASE ~(w = c - 1 /\ v # 0)
  <2>1. b < n
    <3>1. CASE w = c - 1
      <4>1. v = 0
        BY <1>6, <3>1
      <4>2. n = K * (n \div K) + v /\ n \div K \in Nat /\ K * (n \div K) \in Nat
        BY <1>1, Arithmetic
      <4> DEFINE q == n \div K
      <4>3. n = K * q /\ q \in Nat
        BY <4>1, <4>2
      <4> HIDE DEF q, v, n, c
      <4>4. ~(q < c)
        <5> SUFFICES ASSUME q < c PROVE FALSE
          OBVIOUS
        <5>1. K * q + K <= K * c
          BY <1>1, <4>3, Multiples
        <5> QED BY <1>0, <1>1, <4>3, <5>1
      <4>5. K * c <= K * q
        BY <1>1, <4>3, <4>4, Multiples
      <4>6. K * c = K * w + K
        BY <1>0, <1>1, <1>2, <3>1
      <4> QED BY <1>0, <1>1, <1>2, <4>3, <4>5, <4>6
    <3>2. CASE w # c - 1
      <4> HIDE DEF v
      <4>1. w + 1 < c /\ w + 1 \in Nat
        BY <1>1, <1>2, <3>2
      <4> HIDE DEF n, c
      <4>2. K * (w + 1) + K <= K * c /\ K * (w + 1) = K * w + K
        BY <1>0, <1>1, <1>2, <4>1, Multiples
      <4> QED BY <1>0, <1>1, <1>2, <4>2
    <3> QED BY <3>1, <3>2
  <2> QED BY <1>3, <1>4, <1>6, <2>1 DEF Zeros
<1> QED BY <1>5, <1>6

LEMMA FirstZero ==
  ASSUME NEW m \in Bitmaps
  PROVE  find_first_zero(m) = IF Missing(m) = {} THEN -1 ELSE Min(Missing(m))
<1> DEFINE n == m.m_bit_count
           c == word_count_for_bits(n)
           stops == {i \in 0..(c - 1) : StopsAt(m, i)}
<1>0. K \in Nat \ {0} /\ Offsets = 0..(K - 1) /\ Offsets \in SUBSET Nat
  BY BitmapAssumption DEF K, Offsets
<1>1. n \in Nat /\ c \in Nat /\ c <= Words /\ Words \in Nat
  BY BitmapType, WordCount, BitmapAssumption
<1>2. Missing(m) \in SUBSET Nat /\ \A b \in Missing(m) : b \in 0..(n - 1)
  BY <1>1 DEF Missing
<1>3. ASSUME NEW w \in 0..(c - 1)
      PROVE  /\ StopsAt(m, w) <=> Zeros(m, w) # {}
             /\ StopsAt(m, w) => /\ Min(Zeros(m, w)) \in Zeros(m, w)
                                 /\ \A o \in Zeros(m, w) : Min(Zeros(m, w)) <= o
                                 /\ global_bit(m, w) = K * w + Min(Zeros(m, w))
  <2>0. w \in Nat /\ w \in 0..(Words - 1)
    BY <1>1
  <2>1. masked(m, w) \subseteq Offsets
    <3>1. m.m_words[w] \subseteq Offsets
      BY <2>0, BitmapType
    <3>2. (n % K)..(K - 1) \subseteq Offsets
      <4>1. n % K \in Offsets
        BY <1>1, Arithmetic
      <4> QED BY <1>0, <4>1
    <3> QED BY <3>1, <3>2 DEF masked, K
  <2>2. Zeros(m, w) = {} <=> masked(m, w) = Offsets
    BY <2>1 DEF Zeros
  <2>3. CASE Zeros(m, w) = {}
    BY <2>2, <2>3 DEF StopsAt
  <2>4. CASE Zeros(m, w) # {}
    <3> DEFINE f == Min(Zeros(m, w))
    <3>1. f \in Zeros(m, w) /\ \A o \in Zeros(m, w) : f <= o
      BY <1>0, <2>4, Least DEF Zeros
    <3>2. f \in Offsets
      BY <3>1 DEF Zeros
    <3>3. global_bit(m, w) = w * kBitsPerWord + f
      BY <2>4 DEF global_bit, first_set_bit_offset, Zeros
    <3> HIDE DEF f
    <3>4. global_bit(m, w) = K * w + f
      BY <2>0, <3>2, <3>3, Position
    <3>5. K * w + f \in Missing(m)
      BY <3>1, <3>2, ZerosAreMissing
    <3>6. global_bit(m, w) < n
      BY <1>1, <1>2, <3>4, <3>5
    <3>7. StopsAt(m, w)
      BY <2>2, <2>4, <3>6 DEF StopsAt
    <3> QED BY <2>4, <3>1, <3>4, <3>7 DEF f
  <2> QED BY <2>3, <2>4
(* Where a number is missing the scan stops. *)
<1>4. ASSUME NEW b \in Missing(m)
      PROVE  /\ word_index_for_bit(b) \in stops
             /\ bit_offset_for_bit(b) \in Zeros(m, word_index_for_bit(b))
  <2> DEFINE w == word_index_for_bit(b)
             o == bit_offset_for_bit(b)
  <2>1. b \in Nat /\ b \in 0..(n - 1)
    BY <1>2
  <2>2. w \in 0..(c - 1)
    BY <1>1, <2>1, InWords
  <2>3. o \in Offsets /\ b = K * w + o
    BY <2>1, Position
  <2> HIDE DEF w, o
  <2>4. o \in Zeros(m, w)
    BY <2>2, <2>3, ZerosAreMissing
  <2>5. w \in stops
    BY <1>3, <2>2, <2>4
  <2> QED BY <2>4, <2>5 DEF w, o
<1>5. find_first_zero(m) = IF stops = {} THEN -1 ELSE global_bit(m, Min(stops))
  BY DEF find_first_zero
<1>6. CASE stops = {}
  <2>1. Missing(m) = {}
    BY <1>4, <1>6
  <2> QED BY <1>5, <1>6, <2>1
<1>7. CASE stops # {}
  <2> DEFINE w == Min(stops)
             f == Min(Zeros(m, w))
             g == K * w + f
  <2>1. stops \in SUBSET Nat
    BY <1>1
  <2>2. w \in stops /\ \A i \in stops : w <= i
    <3> HIDE DEF stops
    <3> QED BY <1>7, <2>1, Least
  <2>3. w \in 0..(c - 1) /\ w \in Nat /\ StopsAt(m, w)
    BY <1>1, <2>2
  <2> HIDE DEF w, stops
  <2>4. /\ f \in Zeros(m, w) /\ \A o \in Zeros(m, w) : f <= o
        /\ global_bit(m, w) = g
    BY <1>3, <2>3
  <2>5. f \in Offsets
    BY <2>4 DEF Zeros
  <2> HIDE DEF f
  <2>6. g \in Missing(m) /\ g \in Nat
    BY <1>2, <2>3, <2>4, <2>5, ZerosAreMissing
  <2>7. ASSUME NEW b \in Missing(m) PROVE g <= b
    <3> DEFINE i == word_index_for_bit(b)
               o == bit_offset_for_bit(b)
    <3>1. i \in stops /\ o \in Zeros(m, i) /\ i \in Nat /\ b \in Nat
      BY <1>2, <1>4, Position
    <3>2. b = K * i + o /\ o \in 0..(K - 1) /\ K * i \in Nat
      BY <1>0, <3>1, Position
    <3> HIDE DEF i, o
    <3>3. w <= i
      BY <2>2, <3>1
    <3>4. CASE i = w
      BY <1>0, <2>3, <2>4, <2>5, <3>1, <3>2, <3>4
    <3>5. CASE i # w
      <4>1. w < i
        BY <2>3, <3>1, <3>3, <3>5
      <4>2. K * w + K <= K * i /\ K * w \in Nat
        BY <2>3, <3>1, <4>1, Multiples
      <4> DEFINE x == K * w
                 y == K * i
      <4>3. x + K <= y /\ x \in Nat /\ y \in Nat /\ g = x + f /\ b = y + o
        BY <3>2, <4>2
      <4> HIDE DEF x, y, g
      <4> QED BY <1>0, <2>5, <3>2, <4>3
    <3> QED BY <3>4, <3>5
  <2> HIDE DEF g
  <2>8. Min(Missing(m)) = g
    <3>1. Min(Missing(m)) \in Missing(m) /\ \A b \in Missing(m) : Min(Missing(m)) <= b
      BY <1>2, <2>6, Least
    <3> DEFINE h == Min(Missing(m))
    <3>2. h \in Nat /\ h <= g /\ g <= h
      BY <1>2, <2>6, <2>7, <3>1
    <3> HIDE DEF h
    <3>3. h = g
      BY <2>6, <3>2
    <3> QED BY <3>3 DEF h
  <2> QED BY <1>5, <1>7, <2>4, <2>6, <2>8 DEF w
<1> QED BY <1>6, <1>7

(* The operations keep the bitmap what it is; no word is made or lost.     *)
LEMMA BitmapStep ==
  ASSUME bitmap \in Bitmaps, [DNext]_dvars
  PROVE  /\ bitmap' \in Bitmaps /\ bitmap'.m_bit_count = bitmap.m_bit_count
         /\ \/ bitmap' = bitmap
            \/ bitmap' = clear_all(bitmap)
            \/ \E b \in Bit : /\ b < bitmap.m_bit_count
                              /\ bitmap' = set(bitmap, b) \/ bitmap' = clear(bitmap, b)
<1>1. CASE bitmap' = bitmap
  BY <1>1
<1>2. CASE bitmap' = clear_all(bitmap)
  BY <1>2, BitmapType DEF clear_all, Bitmaps
<1>3. ASSUME NEW b \in Bit, bitmap' = set(bitmap, b) \/ bitmap' = clear(bitmap, b),
             bitmap' # bitmap
      PROVE  /\ bitmap' \in Bitmaps /\ bitmap'.m_bit_count = bitmap.m_bit_count
             /\ b < bitmap.m_bit_count
  <2>1. bitmap.m_bit_count \in Nat /\ b \in Nat
    BY BitmapType DEF Bit
  <2>2. b < bitmap.m_bit_count
    BY <1>3, <2>1 DEF set, clear
  <2>3. word_index_for_bit(b) \in 0..(Words - 1) /\ bit_offset_for_bit(b) \in Offsets
    <3>1. b \in 0..(bitmap.m_bit_count - 1)
      BY <2>1, <2>2
    <3>2. /\ word_index_for_bit(b) \in 0..(word_count_for_bits(bitmap.m_bit_count) - 1)
          /\ bit_offset_for_bit(b) \in Offsets
      BY <2>1, <3>1, InWords, Position
    <3>3. word_count_for_bits(bitmap.m_bit_count) \in Nat /\ Words \in Nat
      BY <2>1, WordCount, BitmapAssumption
    <3> QED BY <3>2, <3>3, BitmapType
  <2>4. ~(b >= bitmap.m_bit_count)
    BY <2>1, <2>2
  <2>5. CASE bitmap' = set(bitmap, b)
    BY <2>2, <2>3, <2>4, <2>5, BitmapType DEF set, Bitmaps
  <2>6. CASE bitmap' = clear(bitmap, b)
    BY <2>2, <2>3, <2>4, <2>6, BitmapType DEF clear, Bitmaps
  <2> QED BY <1>3, <2>5, <2>6
<1>4. \/ bitmap' = bitmap
      \/ bitmap' = clear_all(bitmap)
      \/ \E b \in Bit : bitmap' = set(bitmap, b) \/ bitmap' = clear(bitmap, b)
  BY DEF DNext, OnList, OnBitmap, ClearAll, Set, Clear, dvars
<1> QED BY <1>1, <1>2, <1>3, <1>4

(* The two queries of the bitmap answer as for a set of numbers below its  *)
(* count, whatever its words held when it was made: for every word size    *)
(* and every count, whole words or not (bitmap.cpp:69-111).                *)
THEOREM BitmapStaysSet == DSpec => []BitmapIsSet
<1>1. DInit => bitmap \in Bitmaps
  BY DEF DInit
<1>2. bitmap \in Bitmaps /\ [DNext]_dvars => (bitmap \in Bitmaps)'
  BY BitmapStep
<1>3. bitmap \in Bitmaps => BitmapIsSet
  <2> SUFFICES ASSUME bitmap \in Bitmaps PROVE BitmapIsSet
    OBVIOUS
  <2>1. ASSUME NEW b \in Bit PROVE test(bitmap, b) <=> b \in SetOf(bitmap)
    <3>1. b \in Nat
      BY DEF Bit
    <3> QED BY <3>1, TestIsMember
  <2>2. Missing(bitmap) = (0..(Count - 1)) \ SetOf(bitmap)
    BY DEF Missing, Count
  <2>3. find_first_zero(bitmap) =
          IF Missing(bitmap) = {} THEN -1 ELSE Min(Missing(bitmap))
    BY FirstZero
  <2> QED BY <2>1, <2>2, <2>3, Zenon DEF BitmapIsSet
<1> QED BY <1>1, <1>2, <1>3, PTL DEF DSpec

(* set and clear change one member of the row, the bit that they name. *)
LEMMA OneBitOfRow ==
  ASSUME bitmap \in Bitmaps, bitmap' \in Bitmaps, NEW b \in Bit, b < bitmap.m_bit_count
  PROVE  /\ bitmap' = set(bitmap, b) => Row(bitmap') = Row(bitmap) \cup {b}
         /\ bitmap' = clear(bitmap, b) => Row(bitmap') = Row(bitmap) \ {b}
<1> DEFINE w == word_index_for_bit(b)
           o == bit_offset_for_bit(b)
           M == bitmap.m_words
<1>1. w \in 0..(Words - 1) /\ w \in Nat /\ o \in Offsets /\ b = K * w + o /\ b \in Nat
  BY BitInWords
<1>2. M \in [0..(Words - 1) -> SUBSET Offsets] /\ ~(b >= bitmap.m_bit_count)
  BY <1>1, BitmapType
<1>3. ASSUME NEW d \in Bit, d # b
      PROVE  \/ word_index_for_bit(d) # w
             \/ bit_offset_for_bit(d) # o
  BY <1>1, <1>3, BitInWords
<1>4. \A d \in Bit : word_index_for_bit(d) \in 0..(Words - 1)
  BY BitInWords
<1>5. CASE bitmap' = set(bitmap, b)
  <2>1. bitmap'.m_words = [M EXCEPT ![w] = @ \cup {o}]
    BY <1>2, <1>5 DEF set, Bitmaps
  <2> HIDE DEF w, o, M
  <2>2. ASSUME NEW d \in Bit
        PROVE  bit_offset_for_bit(d) \in bitmap'.m_words[word_index_for_bit(d)]
                 <=> d = b \/ bit_offset_for_bit(d) \in M[word_index_for_bit(d)]
    <3>1. CASE d = b
      BY <1>1, <1>2, <2>1, <3>1 DEF w, o
    <3>2. CASE d # b
      BY <1>1, <1>2, <1>3, <1>4, <2>1, <3>2
    <3> QED BY <3>1, <3>2
  <2>3. Row(bitmap') = Row(bitmap) \cup {b}
    BY <2>2, RowIs DEF M
  <2>4. ~(bitmap' = clear(bitmap, b)) \/ Row(bitmap') = Row(bitmap) \ {b}
    <3> SUFFICES ASSUME bitmap' = clear(bitmap, b) PROVE FALSE
      OBVIOUS
    <3>1. bitmap'.m_words = [M EXCEPT ![w] = @ \ {o}]
      BY <1>2 DEF clear, Bitmaps, M, w, o
    <3> QED BY <1>1, <1>2, <2>1, <3>1
  <2> QED BY <2>3, <2>4
<1>6. CASE bitmap' = clear(bitmap, b) /\ bitmap' # set(bitmap, b)
  <2>1. bitmap'.m_words = [M EXCEPT ![w] = @ \ {o}]
    BY <1>2, <1>6 DEF clear, Bitmaps
  <2> HIDE DEF w, o, M
  <2>2. ASSUME NEW d \in Bit
        PROVE  bit_offset_for_bit(d) \in bitmap'.m_words[word_index_for_bit(d)]
                 <=> d # b /\ bit_offset_for_bit(d) \in M[word_index_for_bit(d)]
    <3>1. CASE d = b
      BY <1>1, <1>2, <2>1, <3>1 DEF w, o
    <3>2. CASE d # b
      BY <1>1, <1>2, <1>3, <1>4, <2>1, <3>2
    <3> QED BY <3>1, <3>2
  <2>3. Row(bitmap') = Row(bitmap) \ {b}
    BY <2>2, RowIs DEF M
  <2> QED BY <1>6, <2>3
<1> QED BY <1>5, <1>6

(* clear_all takes from the row the bits of the words that the count needs. *)
LEMMA ClearedRow ==
  ASSUME bitmap \in Bitmaps, bitmap' \in Bitmaps, bitmap' = clear_all(bitmap)
  PROVE  Row(bitmap') =
           Row(bitmap) \cap {b \in Bit : (b \div kBitsPerWord) * kBitsPerWord >= Count}
<1> DEFINE n == bitmap.m_bit_count
           c == word_count_for_bits(n)
<1>0. K \in Nat \ {0} /\ kBitsPerWord = K /\ Count = n /\ n \in Nat
  BY BitmapAssumption, BitmapType DEF K, Count
<1>1. bitmap'.m_words = [w \in 0..(Words - 1) |-> IF w < c THEN {} ELSE bitmap.m_words[w]]
  BY BitmapType DEF clear_all, Bitmaps
<1>2. c \in Nat /\ n <= K * c /\ K * c < n + K /\ K * c \in Nat
  BY <1>0, WordCount, Multiples
<1>3. ASSUME NEW b \in Bit
      PROVE  word_index_for_bit(b) < c <=> ~((b \div kBitsPerWord) * kBitsPerWord >= Count)
  <2> DEFINE w == word_index_for_bit(b)
  <2>1. w \in Nat /\ K * w \in Nat
    BY BitInWords
  <2>2. (b \div kBitsPerWord) * kBitsPerWord = K * w
    <3>1. b \div kBitsPerWord = w
      BY DEF word_index_for_bit
    <3> HIDE DEF w
    <3> QED BY <1>0, <2>1, <3>1
  <2> HIDE DEF w, c, n
  <2>3. w < c => K * w + K <= K * c
    BY <1>2, <2>1, Multiples
  <2>4. ~(w < c) => K * c <= K * w
    <3> SUFFICES ASSUME ~(w < c) PROVE K * c <= K * w
      OBVIOUS
    <3>1. c <= w
      BY <1>2, <2>1
    <3> QED BY <1>2, <2>1, <3>1, Multiples
  <2>5. w < c <=> ~(K * w >= n)
    BY <1>0, <1>2, <2>1, <2>3, <2>4
  <2> QED BY <1>0, <2>2, <2>5 DEF w
<1>4. ASSUME NEW b \in Bit
      PROVE  bit_offset_for_bit(b) \in bitmap'.m_words[word_index_for_bit(b)]
               <=> /\ bit_offset_for_bit(b) \in bitmap.m_words[word_index_for_bit(b)]
                   /\ ~(word_index_for_bit(b) < c)
  <2>1. word_index_for_bit(b) \in 0..(Words - 1)
    BY BitInWords
  <2> QED BY <1>1, <2>1
<1> HIDE DEF c, n
<1> QED BY <1>3, <1>4, RowIs

(* One operation's effect on the memory, bit by bit. *)
Untouched ==
  LET mine == 0..(Count - 1)
      rest == {b \in Bit : (b \div kBitsPerWord) * kBitsPerWord >= Count}
  IN /\ Count' = Count
     /\ ClearAll => Row(bitmap') = Row(bitmap) \cap rest
     /\ \A b \in Bit :
          /\ Set(b)   => Row(bitmap') = Row(bitmap) \cup (mine \cap {b})
          /\ Clear(b) => Row(bitmap') = Row(bitmap) \ (mine \cap {b})

LEMMA UntouchedByStep ==
  ASSUME bitmap \in Bitmaps, [DNext]_dvars
  PROVE  Untouched
<1>1. bitmap' \in Bitmaps /\ Count' = Count /\ Count = bitmap.m_bit_count /\ Count \in Nat
  BY BitmapStep, BitmapType DEF Count
<1>2. ClearAll => Row(bitmap') =
        Row(bitmap) \cap {b \in Bit : (b \div kBitsPerWord) * kBitsPerWord >= Count}
  BY <1>1, ClearedRow DEF ClearAll
<1>3. ASSUME NEW b \in Bit
      PROVE  /\ Set(b)   => Row(bitmap') = Row(bitmap) \cup (0..(Count - 1) \cap {b})
             /\ Clear(b) => Row(bitmap') = Row(bitmap) \ (0..(Count - 1) \cap {b})
  <2>0. b \in Nat
    BY DEF Bit
  <2>1. CASE b < Count
    <3>1. 0..(Count - 1) \cap {b} = {b}
      BY <1>1, <2>0, <2>1
    <3>2. /\ bitmap' = set(bitmap, b) => Row(bitmap') = Row(bitmap) \cup {b}
          /\ bitmap' = clear(bitmap, b) => Row(bitmap') = Row(bitmap) \ {b}
      BY <1>1, <2>1, OneBitOfRow
    <3> QED BY <3>1, <3>2 DEF Set, Clear
  <2>2. CASE ~(b < Count)
    <3>1. 0..(Count - 1) \cap {b} = {}
      BY <1>1, <2>0, <2>2
    <3>2. b >= bitmap.m_bit_count
      BY <1>1, <2>0, <2>2
    <3>3. Set(b) \/ Clear(b) => bitmap' = bitmap
      BY <3>2 DEF Set, Clear, set, clear
    <3> QED BY <3>1, <3>3
  <2> QED BY <2>1, <2>2
<1> QED BY <1>1, <1>2, <1>3, Zenon DEF Untouched

(* What each call leaves of every bit of memory, the bitmap's or not: set  *)
(* and clear change the one they name, clear_all those of the words that   *)
(* the count needs, for every word size and count (bitmap.cpp:41-67).      *)
THEOREM BitmapKeepsToItself == DSpec => NeighboursUntouched
<1>1. DInit => bitmap \in Bitmaps
  BY DEF DInit
<1>2. bitmap \in Bitmaps /\ [DNext]_dvars => (bitmap \in Bitmaps)'
  BY BitmapStep
<1>3. bitmap \in Bitmaps /\ [DNext]_dvars => Untouched
  BY UntouchedByStep
<1> QED BY <1>1, <1>2, <1>3, PTL DEF DSpec, NeighboursUntouched, Untouched
=============================================================================
