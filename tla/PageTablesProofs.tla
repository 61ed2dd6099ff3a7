-------------------------- MODULE PageTablesProofs --------------------------
(***************************************************************************)
(* Every page of the pool is free or one table of the tree, for any page   *)
(* size, fan-out and layout of memory, however often a walk runs out of    *)
(* pages half way; a range that was answered true is mapped; and the       *)
(* kernel's regions are mapped when the pages suffice.                     *)
(***************************************************************************)
EXTENDS PageTables, FiniteSetTheorems, WellFoundedInduction, TLAPS

(* Quotient and remainder. *)
LEMMA DivModUnique ==
  ASSUME NEW b \in Nat \ {0}, NEW q \in Nat, NEW r \in 0..(b - 1)
  PROVE  (b * q + r) \div b = q /\ (b * q + r) % b = r
OBVIOUS

LEMMA DivMod ==
  ASSUME NEW a \in Nat, NEW b \in Nat \ {0}
  PROVE  /\ a \div b \in Nat /\ a % b \in 0..(b - 1)
         /\ b * (a \div b) \in Nat
         /\ a = b * (a \div b) + (a % b)
<1>1. a \div b \in Int /\ a % b \in 0..(b - 1)
  OBVIOUS
<1>2. a = b * (a \div b) + (a % b)
  OBVIOUS
<1>3. a \div b >= 0
  BY <1>1, <1>2
<1>4. b * (a \div b) \in Nat
  BY <1>1, <1>3
<1> QED BY <1>1, <1>2, <1>3, <1>4

LEMMA Multiples ==
  ASSUME NEW b \in Nat \ {0}, NEW i \in Nat, NEW j \in Nat
  PROVE  /\ b * i \in Nat
         /\ i <= j => b * i <= b * j
         /\ i < j => b * i + b <= b * j
         /\ b * i < b * j => i < j
<1>1. b * i \in Nat /\ b * j \in Nat
  OBVIOUS
<1>2. i <= j => b * i <= b * j
  OBVIOUS
<1>3. ASSUME i + 1 <= j PROVE b * i + b <= b * j
  BY <1>3
<1>4. ASSUME j <= i PROVE b * j <= b * i
  BY <1>4
<1> QED BY <1>1, <1>2, <1>3, <1>4

(* A set of numbers that is not empty has a least one. *)
LEMMA Least ==
  ASSUME NEW S \in SUBSET Nat, S # {}
  PROVE  Min(S) \in S /\ \A n \in S : Min(S) <= n
<1>1. IsWellFoundedOn(OpToRel(<, Nat), Nat)
  BY NatLessThanWellFounded
<1>2. \A x, y \in Nat : y < x => <<y, x>> \in OpToRel(<, Nat)
  BY DEF OpToRel
<1>3. PICK R : IsWellFoundedOn(R, Nat) /\ \A x, y \in Nat : y < x => <<y, x>> \in R
  BY <1>1, <1>2, Zenon
<1>4. PICK x \in S : \A y \in S : ~(<<y, x>> \in R)
  BY <1>3, WFMin
<1>5. ASSUME NEW y \in S PROVE x <= y
  <2>1. x \in Nat /\ y \in Nat
    OBVIOUS
  <2>2. ~(y < x)
    BY <1>3, <1>4, <2>1, Zenon
  <2> QED BY <2>1, <2>2
<1> QED BY <1>5 DEF Min

-----------------------------------------------------------------------------
(* Addresses and entries *)

PageCount == AddrSpace \div kPageSize

LEMMA PageCountIs ==
  /\ kPageSize \in Nat \ {0} /\ AddrSpace \in Nat \ {0} /\ PageCount \in Nat \ {0}
  /\ AddrSpace = kPageSize * PageCount
<1>1. kPageSize \in Nat \ {0} /\ AddrSpace \in Nat \ {0} /\ AddrSpace % kPageSize = 0
  BY PageAssumption
<1>2. /\ PageCount \in Nat /\ kPageSize * PageCount \in Nat
      /\ AddrSpace = kPageSize * PageCount + (AddrSpace % kPageSize)
  BY <1>1, DivMod DEF PageCount
<1>3. AddrSpace = kPageSize * PageCount
  BY <1>1, <1>2
<1>4. PageCount # 0
  BY <1>1, <1>3
<1> QED BY <1>1, <1>2, <1>3, <1>4

(* Page addresses are the multiples of the page size below the top. *)
LEMMA PageAddrIs ==
  /\ \A q \in 0..(PageCount - 1) : /\ kPageSize * q \in PageAddr
                                   /\ (kPageSize * q) \div kPageSize = q
  /\ \A a \in PageAddr : /\ a \in Addr /\ a \in Nat
                         /\ a \div kPageSize \in 0..(PageCount - 1)
                         /\ a = kPageSize * (a \div kPageSize)
  /\ nullptr \in PageAddr
<1> DEFINE P == kPageSize
           M == PageCount
<1>0. P \in Nat \ {0} /\ AddrSpace \in Nat /\ M \in Nat \ {0} /\ AddrSpace = P * M
  BY PageCountIs
<1> HIDE DEF P, M
<1>1. ASSUME NEW q \in 0..(M - 1)
      PROVE  P * q \in PageAddr /\ (P * q) \div P = q
  <2>1. q \in Nat /\ q < M
    BY <1>0
  <2>2. P * q + P <= P * M /\ P * q \in Nat
    BY <1>0, <2>1, Multiples
  <2>3. P * q \in Addr
    BY <1>0, <2>2 DEF Addr
  <2>4. (P * q + 0) \div P = q /\ (P * q + 0) % P = 0
    BY <1>0, <2>1, DivModUnique
  <2>5. P * q + 0 = P * q
    BY <2>2
  <2> QED BY <2>3, <2>4, <2>5 DEF PageAddr, is_page_aligned, P
<1>2. ASSUME NEW a \in PageAddr
      PROVE  a \in Addr /\ a \in Nat /\ a \div P \in 0..(M - 1) /\ a = P * (a \div P)
  <2>1. a \in Addr /\ a \in Nat /\ a < AddrSpace /\ a % P = 0
    BY <1>0 DEF PageAddr, is_page_aligned, Addr, P
  <2>2. a \div P \in Nat /\ P * (a \div P) \in Nat /\ a = P * (a \div P) + (a % P)
    BY <1>0, <2>1, DivMod
  <2>3. a = P * (a \div P)
    BY <2>1, <2>2
  <2>4. a \div P < M
    <3> DEFINE q == a \div P
    <3>1. q \in Nat /\ P * q < P * M
      BY <1>0, <2>1, <2>2, <2>3
    <3> HIDE DEF q
    <3>2. q < M
      BY <1>0, <3>1, Multiples
    <3> QED BY <3>2 DEF q
  <2> QED BY <1>0, <2>1, <2>2, <2>3, <2>4
<1>3. nullptr \in PageAddr
  <2>1. 0 \in 0..(M - 1) /\ P * 0 = 0
    BY <1>0
  <2>2. P * 0 \in PageAddr
    BY <1>1, <2>1
  <2> QED BY <2>1, <2>2 DEF nullptr
<1> QED BY <1>1, <1>2, <1>3 DEF P, M

LEMMA FramesArePages ==
  ASSUME NEW f \in Frames
  PROVE  f \in PageAddr /\ f # nullptr /\ f \in Nat
<1>1. f \in Addr /\ f # nullptr /\ is_page_aligned(f)
  BY TableAssumption
<1> QED BY <1>1, PageAddrIs DEF PageAddr

(* An entry that is made for a page leads back to the page. *)
LEMMA MadeEntry ==
  ASSUME NEW pa \in PageAddr, NEW flags \in SUBSET Flag
  PROVE  /\ make_pte(pa, flags) \in Pte
         /\ make_pte(pa, flags).flags = flags
         /\ pte_to_pa(make_pte(pa, flags)) = pa
<1>1. pa \div kPageSize \in 0..(PageCount - 1) /\ pa = kPageSize * (pa \div kPageSize)
  BY PageAddrIs
<1>2. make_pte(pa, flags) \in Pte /\ make_pte(pa, flags).flags = flags
  BY <1>1 DEF make_pte, Pte, PageCount
<1>3. make_pte(pa, flags).ppn = pa \div kPageSize
  BY DEF make_pte
<1>4. (pa \div kPageSize) * kPageSize = kPageSize * (pa \div kPageSize)
  <2> DEFINE q == pa \div kPageSize
  <2>1. q \in Int /\ kPageSize \in Int
    BY <1>1, PageCountIs
  <2> HIDE DEF q
  <2>2. q * kPageSize = kPageSize * q
    BY <2>1
  <2> QED BY <2>2 DEF q
<1> QED BY <1>1, <1>2, <1>3, <1>4 DEF pte_to_pa

LEMMA EntryIs ==
  /\ \A e \in Pte : /\ e.flags \in SUBSET Flag /\ e.ppn \in 0..(PageCount - 1)
                    /\ pte_to_pa(e) \in PageAddr
  /\ ZeroPte \in Pte /\ ~pte_valid(ZeroPte) /\ ~pte_leaf(ZeroPte)
<1>1. ASSUME NEW e \in Pte
      PROVE  /\ e.flags \in SUBSET Flag /\ e.ppn \in 0..(PageCount - 1)
             /\ pte_to_pa(e) \in PageAddr
  <2>1. e.flags \in SUBSET Flag /\ e.ppn \in 0..(PageCount - 1)
    BY DEF Pte, PageCount
  <2>2. e.ppn * kPageSize = kPageSize * e.ppn
    BY <2>1, PageCountIs
  <2> QED BY <2>1, <2>2, PageAddrIs DEF pte_to_pa
<1>2. 0 \in 0..(PageCount - 1)
  BY PageCountIs
<1>3. ZeroPte \in Pte /\ ~pte_valid(ZeroPte) /\ ~pte_leaf(ZeroPte)
  BY <1>2 DEF ZeroPte, Pte, PageCount, pte_valid, pte_leaf
<1> QED BY <1>1, <1>3

LEMMA IndexOf ==
  ASSUME NEW va \in Nat, NEW level \in 0..2
  PROVE  vpn_index(va, level) \in Index
<1>1. kPageSize \in Nat \ {0} /\ Fanout \in Nat \ {0}
  BY PageAssumption, TableAssumption
<1>2. kPageSize * Fanout \in Nat \ {0}
  BY <1>1
<1>3. kPageSize * Fanout * Fanout \in Nat \ {0}
  BY <1>1, <1>2
<1>4. Span[level + 1] \in Nat \ {0}
  BY <1>1, <1>2, <1>3 DEF Span
<1>5. va \div Span[level + 1] \in Nat
  BY <1>4, DivMod
<1>6. (va \div Span[level + 1]) % Fanout \in 0..(Fanout - 1)
  BY <1>1, <1>5, DivMod
<1> QED BY <1>6 DEF vpn_index, Index

-----------------------------------------------------------------------------
(* The tree *)

(* The model's Links, Below and Level, of any contents T of the frames. *)
LinksOf(T, S) == {l \in S \X Index : pte_valid(T[l[1]][l[2]])}
Under(T, S)   == {pte_to_pa(T[l[1]][l[2]]) : l \in LinksOf(T, S)}

LEMMA UnderIs ==
  ASSUME NEW T, NEW S, NEW x
  PROVE  x \in Under(T, S) <=>
           \E t \in S, i \in Index : pte_valid(T[t][i]) /\ x = pte_to_pa(T[t][i])
<1>1. ASSUME NEW t \in S, NEW i \in Index, pte_valid(T[t][i]), x = pte_to_pa(T[t][i])
      PROVE  x \in Under(T, S)
  <2>1. <<t, i>> \in LinksOf(T, S)
    BY <1>1 DEF LinksOf
  <2> QED BY <1>1, <2>1 DEF Under
<1>2. ASSUME x \in Under(T, S)
      PROVE  \E t \in S, i \in Index : pte_valid(T[t][i]) /\ x = pte_to_pa(T[t][i])
  <2>1. PICK l \in LinksOf(T, S) : x = pte_to_pa(T[l[1]][l[2]])
    BY <1>2 DEF Under
  <2>2. l[1] \in S /\ l[2] \in Index /\ pte_valid(T[l[1]][l[2]])
    BY DEF LinksOf
  <2> QED BY <2>1, <2>2
<1> QED BY <1>1, <1>2

Contents == [Frames -> [Index -> Pte]]

(* The tables of the three levels, and how they hang together: free pages  *)
(* and levels share nothing and make up the pool, an entry of the upper    *)
(* levels that is valid is a link, and no two links lead to one table.     *)
Levels(T, l2, l1, l0) == l1 = Under(T, l2) /\ l0 = Under(T, l1)
Apart(A, l2, l1, l0) ==
  /\ A \cap l2 = {} /\ A \cap l1 = {} /\ A \cap l0 = {}
  /\ l2 \cap l1 = {} /\ l2 \cap l0 = {} /\ l1 \cap l0 = {}
Linked(T, S) ==
  \A t, u \in S, i, j \in Index :
    pte_valid(T[t][i]) =>
      /\ ~pte_leaf(T[t][i])
      /\ pte_valid(T[u][j]) /\ pte_to_pa(T[t][i]) = pte_to_pa(T[u][j]) => t = u /\ i = j
Shape(T, A, F, l2, l1, l0) ==
  /\ T \in Contents /\ F \subseteq Frames
  /\ F = A \cup l2 \cup l1 \cup l0
  /\ Levels(T, l2, l1, l0) /\ Apart(A, l2, l1, l0)
  /\ Linked(T, l2 \cup l1)

LEMMA OneLink ==
  ASSUME NEW T, NEW S, Linked(T, S), NEW t \in S, NEW u \in S,
         NEW i \in Index, NEW j \in Index, pte_valid(T[t][i]), pte_valid(T[u][j]),
         pte_to_pa(T[t][i]) = pte_to_pa(T[u][j])
  PROVE  t = u /\ i = j
BY DEF Linked

Top(root) == {root} \ {nullptr}
Tree(T, A, F, root) ==
  Shape(T, A, F, Top(root), Under(T, Top(root)), Under(T, Under(T, Top(root))))

(* Entries below the upper two levels may be written at will. *)
LEMMA WriteLeaf ==
  ASSUME NEW T, NEW A, NEW F, NEW l2, NEW l1, NEW l0, Shape(T, A, F, l2, l1, l0),
         NEW T2 \in Contents, \A t \in l2 \cup l1 : T2[t] = T[t]
  PROVE  Shape(T2, A, F, l2, l1, l0)
<1>1. \A x : x \in Under(T2, l2) <=> x \in Under(T, l2)
  BY UnderIs
<1>2. \A x : x \in Under(T2, l1) <=> x \in Under(T, l1)
  BY UnderIs
<1>3. Levels(T2, l2, l1, l0)
  BY <1>1, <1>2 DEF Levels, Shape
<1>4. Linked(T2, l2 \cup l1)
  BY DEF Linked, Shape
<1> QED BY <1>3, <1>4 DEF Shape

(* A free page becomes a table: cleared, and linked to by an entry of the  *)
(* upper two levels that was not valid.                                    *)
Attached(T, t, i, page) ==
  [zero_page(T, page) EXCEPT ![t][i] = make_pte(page, {"V"})]

LEMMA AttachedIs ==
  ASSUME NEW T \in Contents, NEW t \in Frames, NEW i \in Index, NEW page \in Frames, t # page
  PROVE  /\ Attached(T, t, i, page) \in Contents
         /\ \A j \in Index : Attached(T, t, i, page)[page][j] = ZeroPte
         /\ Attached(T, t, i, page)[t][i] = make_pte(page, {"V"})
         /\ \A j \in Index \ {i} : Attached(T, t, i, page)[t][j] = T[t][j]
         /\ \A u \in Frames \ {t, page} : Attached(T, t, i, page)[u] = T[u]
<1>1. page \in PageAddr
  BY FramesArePages
<1>2. make_pte(page, {"V"}) \in Pte
  BY <1>1, MadeEntry DEF Flag
<1>3. ZeroPte \in Pte
  BY EntryIs
<1> DEFINE Z == [T EXCEPT ![page] = [j \in Index |-> ZeroPte]]
<1>4. Z \in Contents /\ Z[t] = T[t] /\ \A u \in Frames \ {page} : Z[u] = T[u]
  BY <1>3 DEF Contents
<1>5. \A j \in Index : Z[page][j] = ZeroPte
  BY DEF Contents
<1>6. Attached(T, t, i, page) = [Z EXCEPT ![t] = [Z[t] EXCEPT ![i] = make_pte(page, {"V"})]]
  BY DEF Attached, zero_page
<1> HIDE DEF Z
<1>7. Z[t] \in [Index -> Pte]
  BY <1>4 DEF Contents
<1> DEFINE e == make_pte(page, {"V"})
           R == [Z[t] EXCEPT ![i] = e]
<1>8. R \in [Index -> Pte] /\ R[i] = e /\ \A j \in Index \ {i} : R[j] = T[t][j]
  BY <1>2, <1>4, <1>7
<1> HIDE DEF e, R
<1>9. Attached(T, t, i, page) = [Z EXCEPT ![t] = R]
  BY <1>6 DEF R, e
<1>10. Attached(T, t, i, page) \in Contents
  BY <1>4, <1>8, <1>9 DEF Contents
<1>11. /\ Attached(T, t, i, page)[t] = R
       /\ \A u \in Frames \ {t} : Attached(T, t, i, page)[u] = Z[u]
  BY <1>4, <1>9 DEF Contents
<1> QED BY <1>4, <1>5, <1>8, <1>10, <1>11 DEF e

LEMMA Attach ==
  ASSUME NEW T, NEW A, NEW F, NEW l2, NEW l1, NEW l0, Shape(T, A, F, l2, l1, l0),
         NEW t \in l2 \cup l1, NEW i \in Index, ~pte_valid(T[t][i]), NEW page \in A
  PROVE  LET T2 == Attached(T, t, i, page)
         IN /\ T2 \in Contents /\ pte_valid(T2[t][i]) /\ pte_to_pa(T2[t][i]) = page
            /\ \A j \in Index : T2[page][j] = ZeroPte
            /\ \A u \in Frames \ {page}, j \in Index :
                 (u # t \/ j # i) => T2[u][j] = T[u][j]
            /\ t \in l2 => Shape(T2, A \ {page}, F, l2, l1 \cup {page}, l0)
            /\ t \in l1 => Shape(T2, A \ {page}, F, l2, l1, l0 \cup {page})
<1> DEFINE T2 == Attached(T, t, i, page)
           B  == A \ {page}
           m1 == l1 \cup {page}
           m0 == l0 \cup {page}
<1>1. /\ T \in Contents /\ F \subseteq Frames /\ F = A \cup l2 \cup l1 \cup l0
      /\ l1 = Under(T, l2) /\ l0 = Under(T, l1)
      /\ Apart(A, l2, l1, l0) /\ Linked(T, l2 \cup l1)
  BY DEF Shape, Levels
<1>2. /\ page \in Frames /\ t \in Frames /\ t # page
      /\ page \notin l2 /\ page \notin l1 /\ page \notin l0
      /\ l2 \cap l1 = {} /\ l2 \subseteq Frames /\ l1 \subseteq Frames
  BY <1>1 DEF Apart
<1>3. /\ T2 \in Contents /\ \A j \in Index : T2[page][j] = ZeroPte
      /\ T2[t][i] = make_pte(page, {"V"})
      /\ \A j \in Index \ {i} : T2[t][j] = T[t][j]
      /\ \A u \in Frames \ {t, page} : T2[u] = T[u]
  BY <1>1, <1>2, AttachedIs
<1> HIDE DEF T2
<1>4. \A u \in Frames \ {page}, j \in Index : (u # t \/ j # i) => T2[u][j] = T[u][j]
  BY <1>3
<1>5. pte_valid(T2[t][i]) /\ ~pte_leaf(T2[t][i]) /\ pte_to_pa(T2[t][i]) = page
  <2>1. page \in PageAddr
    BY <1>2, FramesArePages
  <2>2. make_pte(page, {"V"}).flags = {"V"} /\ pte_to_pa(make_pte(page, {"V"})) = page
    BY <2>1, MadeEntry DEF Flag
  <2> QED BY <1>3, <2>2 DEF pte_valid, pte_leaf
<1>6. ~pte_valid(ZeroPte)
  BY EntryIs
(* The links of the tables that do not hold the new one are as before. *)
<1>7. ASSUME NEW S \in SUBSET (l2 \cup l1), t \notin S
      PROVE  /\ Under(T2, S) = Under(T, S)
             /\ Under(T2, S \cup {page}) = Under(T, S)
  <2>1. \A u \in S, j \in Index : T2[u][j] = T[u][j]
    BY <1>2, <1>4, <1>7
  <2>2. \A x : x \in Under(T2, S) <=> x \in Under(T, S)
    BY <2>1, UnderIs
  <2>3. \A x : x \in Under(T2, S \cup {page}) <=> x \in Under(T, S)
    <3> TAKE x
    <3>1. ASSUME x \in Under(T2, S \cup {page}) PROVE x \in Under(T, S)
      <4>1. PICK u \in S \cup {page}, j \in Index :
              pte_valid(T2[u][j]) /\ x = pte_to_pa(T2[u][j])
        BY <3>1, UnderIs
      <4>2. u # page
        BY <1>3, <1>6, <4>1
      <4> QED BY <2>1, <4>1, <4>2, UnderIs
    <3>2. ASSUME x \in Under(T, S) PROVE x \in Under(T2, S \cup {page})
      <4>1. PICK u \in S, j \in Index : pte_valid(T[u][j]) /\ x = pte_to_pa(T[u][j])
        BY <3>2, UnderIs
      <4>2. u \in S \cup {page} /\ T2[u][j] = T[u][j]
        BY <2>1
      <4> QED BY <4>1, <4>2, UnderIs
    <3> QED BY <3>1, <3>2
  <2> QED BY <2>2, <2>3
(* Those of the others have one more. *)
<1>8. ASSUME NEW S \in SUBSET (l2 \cup l1), t \in S
      PROVE  Under(T2, S) = Under(T, S) \cup {page}
  <2>1. \A u \in S, j \in Index : (u # t \/ j # i) => T2[u][j] = T[u][j]
    BY <1>2, <1>4
  <2>2. ASSUME NEW x \in Under(T2, S) PROVE x \in Under(T, S) \cup {page}
    <3>1. PICK u \in S, j \in Index : pte_valid(T2[u][j]) /\ x = pte_to_pa(T2[u][j])
      BY <2>2, UnderIs
    <3>2. CASE u = t /\ j = i
      BY <1>5, <3>1, <3>2
    <3>3. CASE ~(u = t /\ j = i)
      BY <2>1, <3>1, <3>3, UnderIs
    <3> QED BY <3>2, <3>3
  <2>3. ASSUME NEW x \in Under(T, S) PROVE x \in Under(T2, S)
    <3>1. PICK u \in S, j \in Index : pte_valid(T[u][j]) /\ x = pte_to_pa(T[u][j])
      BY <2>3, UnderIs
    <3>2. u # t \/ j # i
      BY <3>1
    <3> QED BY <2>1, <3>1, <3>2, UnderIs
  <2>4. page \in Under(T2, S)
    BY <1>5, <1>8, UnderIs
  <2> QED BY <2>2, <2>3, <2>4
(* The new link is the only one to its table. *)
<1>9. ASSUME NEW u \in l2 \cup l1 \cup {page}, NEW j \in Index, pte_valid(T2[u][j])
      PROVE  /\ u \in l2 \cup l1 /\ ~pte_leaf(T2[u][j])
             /\ (u # t \/ j # i) =>
                  T2[u][j] = T[u][j] /\ pte_to_pa(T2[u][j]) # page
  <2>1. u # page
    BY <1>3, <1>6, <1>9
  <2>2. u \in l2 \cup l1 /\ u \in Frames
    BY <1>2, <2>1
  <2>3. CASE u = t /\ j = i
    BY <1>5, <2>2, <2>3
  <2>4. CASE ~(u = t /\ j = i)
    <3>1. T2[u][j] = T[u][j]
      BY <1>4, <2>1, <2>2, <2>4
    <3>2. ~pte_leaf(T[u][j])
      BY <1>1, <1>9, <2>2, <3>1 DEF Linked
    <3>3. pte_to_pa(T[u][j]) \in l1 \cup l0
      <4>1. CASE u \in l2
        BY <1>1, <1>9, <3>1, <4>1, UnderIs
      <4>2. CASE u \in l1
        BY <1>1, <1>9, <3>1, <4>2, UnderIs
      <4> QED BY <2>2, <4>1, <4>2
    <3> QED BY <1>2, <2>2, <3>1, <3>2, <3>3
  <2> QED BY <2>3, <2>4
<1>10. ASSUME NEW S \in SUBSET (l2 \cup l1 \cup {page})
       PROVE  Linked(T2, S)
  <2> SUFFICES ASSUME NEW u \in S, NEW v \in S, NEW j \in Index, NEW k \in Index,
                      pte_valid(T2[u][j])
               PROVE  /\ ~pte_leaf(T2[u][j])
                      /\ (pte_valid(T2[v][k]) /\ pte_to_pa(T2[u][j]) = pte_to_pa(T2[v][k]))
                           => u = v /\ j = k
    BY DEF Linked
  <2>1. ~pte_leaf(T2[u][j])
    BY <1>9
  <2>2. ASSUME pte_valid(T2[v][k]), pte_to_pa(T2[u][j]) = pte_to_pa(T2[v][k])
        PROVE  u = v /\ j = k
    <3>1. CASE u = t /\ j = i
      BY <1>5, <1>9, <2>2, <3>1
    <3>2. CASE v = t /\ k = i
      BY <1>5, <1>9, <2>2, <3>2
    <3>3. CASE ~(u = t /\ j = i) /\ ~(v = t /\ k = i)
      <4>1. /\ T2[u][j] = T[u][j] /\ T2[v][k] = T[v][k]
            /\ u \in l2 \cup l1 /\ v \in l2 \cup l1
        BY <1>9, <2>2, <3>3
      <4> QED BY <1>1, <2>2, <4>1 DEF Linked
    <3> QED BY <3>1, <3>2, <3>3
  <2> QED BY <2>1, <2>2
<1>11. ASSUME t \in l2
       PROVE  Shape(T2, B, F, l2, m1, l0)
  <2>1. t \notin l1
    BY <1>2, <1>11
  <2>2. Levels(T2, l2, m1, l0)
    BY <1>1, <1>7, <1>8, <1>11, <2>1 DEF Levels
  <2>3. Apart(B, l2, m1, l0)
    BY <1>1, <1>2 DEF Apart
  <2>4. Linked(T2, l2 \cup m1)
    BY <1>10
  <2> QED BY <1>1, <1>3, <2>2, <2>3, <2>4 DEF Shape
<1>12. ASSUME t \in l1
       PROVE  Shape(T2, B, F, l2, l1, m0)
  <2>1. t \notin l2
    BY <1>2, <1>12
  <2>2. Levels(T2, l2, l1, m0)
    BY <1>1, <1>7, <1>8, <1>12, <2>1 DEF Levels
  <2>3. Apart(B, l2, l1, m0)
    BY <1>1, <1>2 DEF Apart
  <2>4. Linked(T2, l2 \cup l1)
    BY <1>10
  <2> QED BY <1>1, <1>3, <2>2, <2>3, <2>4 DEF Shape
<1> QED BY <1>3, <1>4, <1>5, <1>11, <1>12 DEF T2

LEMMA AttachLevels ==
  ASSUME NEW T, NEW A, NEW F, NEW l2, NEW l1, NEW l0, Shape(T, A, F, l2, l1, l0),
         NEW t \in l2 \cup l1, NEW i \in Index, ~pte_valid(T[t][i]), NEW page \in A
  PROVE  /\ t \in l2 => Shape(Attached(T, t, i, page), A \ {page}, F, l2, l1 \cup {page}, l0)
         /\ t \in l1 => Shape(Attached(T, t, i, page), A \ {page}, F, l2, l1, l0 \cup {page})
BY Attach, Zenon

LEMMA AttachEntries ==
  ASSUME NEW T \in Contents, NEW t \in Frames, NEW i \in Index, NEW page \in Frames, t # page,
         NEW T2, T2 = Attached(T, t, i, page)
  PROVE  /\ T2 \in Contents /\ pte_valid(T2[t][i]) /\ pte_to_pa(T2[t][i]) = page
         /\ \A j \in Index : T2[page][j] = ZeroPte
         /\ \A u \in Frames \ {page}, j \in Index : (u # t \/ j # i) => T2[u][j] = T[u][j]
<1>1. /\ T2 \in Contents /\ T2[t][i] = make_pte(page, {"V"})
      /\ \A j \in Index : T2[page][j] = ZeroPte
      /\ \A j \in Index \ {i} : T2[t][j] = T[t][j]
      /\ \A u \in Frames \ {t, page} : T2[u] = T[u]
  BY AttachedIs
<1>2. \A u \in Frames \ {page}, j \in Index : (u # t \/ j # i) => T2[u][j] = T[u][j]
  BY <1>1
<1>3. make_pte(page, {"V"}).flags = {"V"} /\ pte_to_pa(make_pte(page, {"V"})) = page
  BY FramesArePages, MadeEntry DEF Flag
<1>4. pte_valid(T2[t][i]) /\ pte_to_pa(T2[t][i]) = page
  BY <1>1, <1>3 DEF pte_valid
<1> QED BY <1>1, <1>2, <1>4

-----------------------------------------------------------------------------
(* A walk keeps the tree, and stands on a table of the level it has reached. *)

Stratum(T, root, n) ==
  IF n = 2 THEN Top(root)
  ELSE IF n = 1 THEN Under(T, Top(root)) ELSE Under(T, Under(T, Top(root)))

WalkRecord(F) ==
  [ok : BOOLEAN, tables : Contents, avail : SUBSET F, table : PageAddr]

Walked(w, F, root, n) ==
  /\ w \in WalkRecord(F)
  /\ Tree(w.tables, w.avail, F, root)
  /\ w.ok => w.table \in Stratum(w.tables, root, n)

(* The tables of a tree are pages of the pool. *)
LEMMA Strata ==
  ASSUME NEW T, NEW A, NEW F, NEW root, Tree(T, A, F, root), NEW n \in 0..2
  PROVE  Stratum(T, root, n) \subseteq F /\ F \subseteq Frames /\ T \in Contents
<1>1. n = 2 \/ n = 1 \/ n = 0
  OBVIOUS
<1> QED BY <1>1 DEF Tree, Shape, Stratum

LEMMA DescendKeeps ==
  ASSUME NEW F, NEW root, NEW w, NEW va \in Nat, NEW n \in 1..2, Walked(w, F, root, n)
  PROVE  Walked(Descend(w, va, n), F, root, n - 1)
<1> DEFINE i    == vpn_index(va, n)
           T    == w.tables
           A    == w.avail
           t    == w.table
           pte  == T[t][i]
           l2   == Top(root)
           l1   == Under(T, l2)
           l0   == Under(T, l1)
           page == Min(A)
<1>1. /\ w \in WalkRecord(F) /\ Tree(T, A, F, root) /\ Shape(T, A, F, l2, l1, l0)
      /\ w.ok => t \in Stratum(T, root, n)
  BY DEF Walked, Tree
<1>2. i \in Index
  BY IndexOf
<1>3. n = 2 \/ n = 1
  OBVIOUS
<1>4. A \subseteq F /\ F \subseteq Frames /\ T \in Contents
  BY <1>1 DEF Shape
<1>5. CASE ~w.ok \/ (~pte_valid(pte) /\ A = {}) \/ (pte_valid(pte) /\ pte_leaf(pte))
  <2>1. Descend(w, va, n) = [w EXCEPT !.ok = FALSE]
    BY <1>5 DEF Descend
  <2>2. /\ [w EXCEPT !.ok = FALSE] \in WalkRecord(F)
        /\ [w EXCEPT !.ok = FALSE].ok = FALSE
        /\ [w EXCEPT !.ok = FALSE].tables = T /\ [w EXCEPT !.ok = FALSE].avail = A
    BY <1>1 DEF WalkRecord
  <2> QED BY <1>1, <2>1, <2>2 DEF Walked
<1>6. CASE w.ok /\ pte_valid(pte) /\ ~pte_leaf(pte)
  <2>1. Descend(w, va, n) = [w EXCEPT !.table = pte_to_pa(pte)]
    BY <1>6 DEF Descend
  <2>2. t \in Frames
    BY <1>1, <1>6, Strata
  <2>3. pte_to_pa(pte) \in PageAddr
    <3>1. pte \in Pte
      BY <1>2, <1>4, <2>2 DEF Contents
    <3> QED BY <3>1, EntryIs
  <2>4. pte_to_pa(pte) \in Stratum(T, root, n - 1)
    <3>1. CASE n = 2
      BY <1>1, <1>2, <1>6, <3>1, UnderIs DEF Stratum
    <3>2. CASE n = 1
      BY <1>1, <1>2, <1>6, <3>2, UnderIs DEF Stratum
    <3> QED BY <1>3, <3>1, <3>2
  <2>5. /\ [w EXCEPT !.table = pte_to_pa(pte)] \in WalkRecord(F)
        /\ [w EXCEPT !.table = pte_to_pa(pte)].table = pte_to_pa(pte)
        /\ [w EXCEPT !.table = pte_to_pa(pte)].tables = T
        /\ [w EXCEPT !.table = pte_to_pa(pte)].avail = A
    BY <1>1, <2>3 DEF WalkRecord
  <2> QED BY <1>1, <2>1, <2>4, <2>5 DEF Walked
<1>7. CASE w.ok /\ ~pte_valid(pte) /\ A # {}
  <2> DEFINE T2 == Attached(T, t, i, page)
             B  == A \ {page}
             v  == [ok |-> TRUE, avail |-> B, table |-> page, tables |-> T2]
  <2>1. Descend(w, va, n) = v
    BY <1>7 DEF Descend, alloc_page_table, Attached
  <2>2. page \in A /\ page \in Frames /\ page \in PageAddr
    <3>1. A \in SUBSET Nat
      BY <1>4, FramesArePages
    <3>2. page \in A
      BY <1>7, <3>1, Least
    <3> QED BY <1>4, <3>2, FramesArePages
  <2>3. t \in l2 \cup l1 /\ (n = 2 => t \in l2) /\ (n = 1 => t \in l1)
    BY <1>1, <1>3, <1>7 DEF Stratum
  <2>4. /\ T2 \in Contents
        /\ t \in l2 => Shape(T2, B, F, l2, l1 \cup {page}, l0)
        /\ t \in l1 => Shape(T2, B, F, l2, l1, l0 \cup {page})
    <3> HIDE DEF i, T, A, t, l2, l1, l0, page
    <3>1. Shape(T, A, F, l2, l1, l0) /\ ~pte_valid(T[t][i])
      BY <1>1, <1>7
    <3>2. /\ t \in l2 => Shape(T2, B, F, l2, l1 \cup {page}, l0)
          /\ t \in l1 => Shape(T2, B, F, l2, l1, l0 \cup {page})
      BY <1>2, <2>2, <2>3, <3>1, AttachLevels
    <3> QED BY <2>3, <3>2 DEF Shape
  <2> HIDE DEF T2
  <2>5. CASE n = 2
    <3>1. Shape(T2, B, F, l2, l1 \cup {page}, l0)
      BY <2>3, <2>4, <2>5
    <3>2. l1 \cup {page} = Under(T2, l2) /\ l0 = Under(T2, Under(T2, l2))
      BY <3>1 DEF Shape, Levels
    <3>3. Tree(T2, B, F, root)
      BY <3>1, <3>2 DEF Tree
    <3>4. page \in Stratum(T2, root, n - 1)
      BY <2>5, <3>2 DEF Stratum
    <3>5. v \in WalkRecord(F)
      BY <1>4, <2>2, <2>4 DEF WalkRecord
    <3> QED BY <2>1, <3>3, <3>4, <3>5 DEF Walked
  <2>6. CASE n = 1
    <3>1. Shape(T2, B, F, l2, l1, l0 \cup {page})
      BY <2>3, <2>4, <2>6
    <3>2. l1 = Under(T2, l2) /\ l0 \cup {page} = Under(T2, Under(T2, l2))
      BY <3>1 DEF Shape, Levels
    <3>3. Tree(T2, B, F, root)
      BY <3>1, <3>2 DEF Tree
    <3>4. page \in Stratum(T2, root, n - 1)
      BY <2>6, <3>2 DEF Stratum
    <3>5. v \in WalkRecord(F)
      BY <1>4, <2>2, <2>4 DEF WalkRecord
    <3> QED BY <2>1, <3>3, <3>4, <3>5 DEF Walked
  <2> QED BY <1>3, <2>5, <2>6
<1> QED BY <1>5, <1>6, <1>7

(* An entry of a table of the lowest level may be written at will. *)
LEMMA WriteEntry ==
  ASSUME NEW T, NEW A, NEW F, NEW root, Tree(T, A, F, root),
         NEW t \in Stratum(T, root, 0), NEW i \in Index, NEW e \in Pte
  PROVE  /\ [T EXCEPT ![t][i] = e] \in Contents
         /\ Tree([T EXCEPT ![t][i] = e], A, F, root)
<1> DEFINE l2 == Top(root)
           l1 == Under(T, l2)
           l0 == Under(T, l1)
           T2 == [T EXCEPT ![t][i] = e]
           R  == [T[t] EXCEPT ![i] = e]
<1>1. Shape(T, A, F, l2, l1, l0) /\ t \in l0
  BY DEF Tree, Stratum
<1>2. T \in Contents /\ t \in Frames /\ t \notin l2 \cup l1
  BY <1>1 DEF Shape, Apart
<1>3. R \in [Index -> Pte]
  BY <1>2 DEF Contents
<1>4. T2 = [T EXCEPT ![t] = R]
  OBVIOUS
<1> HIDE DEF R, T2
<1>5. T2 \in Contents /\ \A u \in Frames : u # t => T2[u] = T[u]
  BY <1>2, <1>3, <1>4 DEF Contents
<1>6. \A u \in l2 \cup l1 : T2[u] = T[u]
  BY <1>1, <1>2, <1>5 DEF Shape
<1>7. Shape(T2, A, F, l2, l1, l0)
  BY <1>1, <1>5, <1>6, WriteLeaf
<1>8. l1 = Under(T2, l2) /\ l0 = Under(T2, Under(T2, l2))
  BY <1>7 DEF Shape, Levels
<1>9. Tree(T2, A, F, root)
  BY <1>7, <1>8 DEF Tree
<1> QED BY <1>5, <1>9 DEF T2

(* map_page keeps the tree, whether or not it maps anything. *)
LEMMA MapPageKeeps ==
  ASSUME NEW root \in PageAddr, NEW va \in PageAddr, NEW pa \in PageAddr,
         NEW flags \in SUBSET Flag,
         free \subseteq pool, Tree(mem, free, pool, root)
  PROVE  /\ map_page(root, va, pa, flags) \in WalkRecord(pool)
         /\ Tree(map_page(root, va, pa, flags).tables,
                 map_page(root, va, pa, flags).avail, pool, root)
<1> DEFINE start == [ok |-> root # nullptr /\ is_page_aligned(va) /\ is_page_aligned(pa),
                     tables |-> mem, avail |-> free, table |-> root]
           w1 == Descend(start, va, 2)
           w  == Descend(w1, va, 1)
           i  == vpn_index(va, 0)
           e  == make_pte(pa, flags \cup {"V"})
           m  == map_page(root, va, pa, flags)
<1>1. va \in Nat
  BY PageAddrIs
<1>2. Walked(start, pool, root, 2)
  <2>1. mem \in Contents
    BY DEF Tree, Shape
  <2>2. start \in WalkRecord(pool)
    BY <2>1 DEF WalkRecord
  <2>3. root # nullptr => root \in Stratum(mem, root, 2)
    BY DEF Stratum, Top
  <2> QED BY <2>2, <2>3 DEF Walked
<1>3. m = IF ~w.ok \/ occupied(w.tables[w.table][i])
          THEN [w EXCEPT !.ok = FALSE]
          ELSE [w EXCEPT !.tables[w.table][i] = e]
  BY DEF map_page
<1> HIDE DEF start
<1>4. Walked(w1, pool, root, 1)
  <2>1. Walked(w1, pool, root, 2 - 1)
    BY <1>1, <1>2, DescendKeeps
  <2> QED BY <2>1
<1> HIDE DEF w1
<1>5. Walked(w, pool, root, 0)
  <2>1. Walked(w, pool, root, 1 - 1)
    BY <1>1, <1>4, DescendKeeps
  <2> QED BY <2>1
<1> HIDE DEF w, m
<1>6. /\ w \in WalkRecord(pool) /\ Tree(w.tables, w.avail, pool, root)
      /\ w.ok => w.table \in Stratum(w.tables, root, 0)
  BY <1>5 DEF Walked
<1>7. CASE ~w.ok \/ occupied(w.tables[w.table][i])
  <2>1. m = [w EXCEPT !.ok = FALSE]
    BY <1>3, <1>7
  <2>2. m \in WalkRecord(pool) /\ m.tables = w.tables /\ m.avail = w.avail
    BY <1>6, <2>1 DEF WalkRecord
  <2> QED BY <1>6, <2>2 DEF m
<1>8. CASE w.ok /\ ~occupied(w.tables[w.table][i])
  <2> DEFINE T2 == [w.tables EXCEPT ![w.table][i] = e]
  <2>1. m = [w EXCEPT !.tables = T2]
    BY <1>3, <1>8
  <2>2. i \in Index /\ e \in Pte
    BY <1>1, IndexOf, MadeEntry DEF Flag
  <2>3. T2 \in Contents /\ Tree(T2, w.avail, pool, root)
    BY <1>6, <1>8, <2>2, WriteEntry
  <2> HIDE DEF T2
  <2>4. m \in WalkRecord(pool) /\ m.tables = T2 /\ m.avail = w.avail
    BY <1>6, <2>1, <2>3 DEF WalkRecord
  <2> QED BY <2>3, <2>4 DEF m
<1> QED BY <1>7, <1>8

-----------------------------------------------------------------------------
(* Page arithmetic stays on pages *)

LEMMA PlusIs ==
  ASSUME NEW a \in Nat, NEW b \in Nat
  PROVE  plus(a, b) \in Addr /\ (a + b \in Addr => plus(a, b) = a + b)
<1>1. AddrSpace \in Nat \ {0}
  BY PageAssumption
<1>2. plus(a, b) \in 0..(AddrSpace - 1)
  BY <1>1, DivMod DEF plus
<1>3. ASSUME a + b \in Addr PROVE plus(a, b) = a + b
  <2>1. (AddrSpace * 0 + (a + b)) % AddrSpace = a + b
    BY <1>1, <1>3, DivModUnique DEF Addr
  <2>2. AddrSpace * 0 + (a + b) = a + b
    BY <1>1
  <2> QED BY <2>1, <2>2 DEF plus
<1> QED BY <1>2, <1>3 DEF Addr

LEMMA AlignIs ==
  ASSUME NEW a \in Addr
  PROVE  align_down(a) \in PageAddr /\ align_up(a) \in PageAddr /\ a \in Nat
<1>1. kPageSize \in Nat \ {0} /\ PageCount \in Nat /\ AddrSpace \in Nat
      /\ AddrSpace = kPageSize * PageCount
  BY PageCountIs
<1>2. ASSUME NEW x \in Addr PROVE align_down(x) \in PageAddr
  <2> DEFINE q == x \div kPageSize
  <2>1. x \in Nat /\ x < AddrSpace
    BY <1>1 DEF Addr
  <2>2. /\ q \in Nat /\ x % kPageSize \in 0..(kPageSize - 1)
        /\ kPageSize * q \in Nat /\ x = kPageSize * q + (x % kPageSize)
    BY <1>1, <2>1, DivMod
  <2>3. align_down(x) = kPageSize * q
    BY <1>1, <2>1, <2>2 DEF align_down
  <2> HIDE DEF q
  <2>4. kPageSize * q < kPageSize * PageCount
    BY <1>1, <2>1, <2>2
  <2>5. q < PageCount
    BY <1>1, <2>2, <2>4, Multiples
  <2>6. kPageSize * q \in PageAddr
    <3>1. q \in 0..(PageCount - 1)
      BY <1>1, <2>2, <2>5
    <3> QED BY <3>1, PageAddrIs
  <2> QED BY <2>3, <2>6
<1>3. a \in Nat /\ kPageSize - 1 \in Nat
  BY <1>1 DEF Addr
<1>4. plus(a, kPageSize - 1) \in Addr
  BY <1>3, PlusIs
<1> QED BY <1>2, <1>3, <1>4 DEF align_up

LEMMA NextPage ==
  ASSUME NEW a \in PageAddr
  PROVE  plus(a, kPageSize) \in PageAddr
<1> DEFINE q == a \div kPageSize
<1>1. /\ kPageSize \in Nat \ {0} /\ PageCount \in Nat /\ AddrSpace \in Nat \ {0}
      /\ AddrSpace = kPageSize * PageCount
  BY PageCountIs
<1>2. a \in Nat /\ q \in 0..(PageCount - 1) /\ a = kPageSize * q
  BY PageAddrIs
<1> HIDE DEF q
<1>3. a + kPageSize = kPageSize * (q + 1) /\ q + 1 \in Nat
  BY <1>1, <1>2
<1>4. CASE q + 1 < PageCount
  <2>1. kPageSize * (q + 1) \in PageAddr
    BY <1>1, <1>3, <1>4, PageAddrIs
  <2>2. a + kPageSize \in Addr
    BY <1>3, <2>1 DEF PageAddr
  <2> QED BY <1>1, <1>2, <1>3, <2>1, <2>2, PlusIs
<1>5. CASE q + 1 = PageCount
  <2>1. (AddrSpace * 1 + 0) % AddrSpace = 0
    BY <1>1, DivModUnique
  <2>2. AddrSpace * 1 + 0 = a + kPageSize
    BY <1>1, <1>3, <1>5
  <2> QED BY <2>1, <2>2, PageAddrIs DEF plus, nullptr
<1> QED BY <1>1, <1>2, <1>4, <1>5

-----------------------------------------------------------------------------
(* The inductive invariant: types, the tree, and what boot has yet to do. *)

Region == [va : Addr, size : Addr, flags : {Ram, Device}]
Boot ==
  /\ todo \in Seq(Region)
  /\ phase = "root" => g_kernel_page_table = nullptr /\ todo = <<>> /\ loop = {}
TInv == TypeOK /\ Boot /\ Tree(mem, free, pool, g_kernel_page_table)

LEMMA RegionsAre == Regions \in Seq(Region)
<1>1. /\ kDram \in [base : Addr, size : Addr] /\ kUart0 \in [base : Addr, size : Addr]
      /\ kClint \in [base : Addr, size : Addr]
  BY TableAssumption
<1>2. ASSUME NEW r \in [base : Addr, size : Addr]
      PROVE  map_device_region(r) \in Region
  <2>1. align_down(r.base) \in Addr /\ align_up(r.size) \in Addr
    BY AlignIs, PageAddrIs
  <2> QED BY <2>1 DEF map_device_region, Region
<1>3. [va |-> kDram.base, size |-> kDram.size, flags |-> Ram] \in Region
  BY <1>1 DEF Region
<1> QED BY <1>1, <1>2, <1>3 DEF Regions

(* A tree with no root has no tables. *)
LEMMA NoRoot ==
  ASSUME NEW T
  PROVE  Top(nullptr) = {} /\ Under(T, {}) = {}
<1>1. \A x : x \notin Under(T, {})
  BY UnderIs
<1> QED BY <1>1 DEF Top

LEMMA InitHolds == Init => TInv
<1> SUFFICES ASSUME Init PROVE TInv
  OBVIOUS
<1>1. PICK g \in Garbage : mem = [f \in Frames |-> [i \in Index |-> g]]
  BY DEF Init
<1>2. g \in Pte /\ mem \in Contents
  BY <1>1, TableAssumption DEF Contents
<1>3. pool \in Pools /\ free = pool /\ pool \subseteq Frames
  BY DEF Init, Frames
<1>4. 0 \in 0..(AddrSpace \div kPageSize - 1)
  BY PageCountIs DEF PageCount
<1>5. TypeOK
  BY <1>2, <1>3, <1>4 DEF Init, TypeOK, Contents
<1>6. Boot
  BY DEF Init, Boot
<1>7. Tree(mem, free, pool, nullptr)
  <2>1. Shape(mem, free, pool, {}, {}, {})
    BY <1>2, <1>3, NoRoot DEF Shape, Levels, Apart, Linked
  <2> QED BY <2>1, NoRoot DEF Tree
<1> QED BY <1>5, <1>6, <1>7 DEF Init, TInv

LEMMA AllocRootKeeps ==
  ASSUME TInv, AllocRoot
  PROVE  TInv'
<1>1. /\ TypeOK /\ Boot /\ Tree(mem, free, pool, nullptr)
      /\ phase = "root" /\ g_kernel_page_table = nullptr /\ loop = {} /\ todo = <<>>
  BY DEF TInv, Boot, AllocRoot
<1>2. /\ phase' = "regions" /\ satp' = satp /\ loop' = loop /\ granted' = granted
      /\ pool' = pool
  BY DEF AllocRoot
<1>3. free = pool /\ mem \in Contents /\ pool \subseteq Frames
  BY <1>1, NoRoot DEF Tree, Shape
<1>4. CASE free = {}
  <2>1. UNCHANGED <<mem, free, g_kernel_page_table, todo>>
    BY <1>4 DEF AllocRoot
  <2>2. TypeOK'
    BY <1>1, <1>2, <2>1 DEF TypeOK
  <2>3. Boot'
    BY <1>1, <1>2, <2>1 DEF Boot
  <2> QED BY <1>1, <1>2, <2>1, <2>2, <2>3 DEF TInv
<1>5. CASE free # {}
  <2> DEFINE page == Min(free)
             T2   == zero_page(mem, page)
  <2>1. page \in free
    <3>1. free \in SUBSET Nat
      BY <1>3, FramesArePages
    <3> QED BY <1>5, <3>1, Least
  <2>2. page \in Frames /\ page # nullptr
    BY <1>3, <2>1, FramesArePages
  <2>3. /\ mem' = T2 /\ free' = free \ {page} /\ g_kernel_page_table' = page
        /\ todo' = Regions
    BY <1>5 DEF AllocRoot, alloc_page_table
  <2>4. T2 \in Contents /\ \A i \in Index : T2[page][i] = ZeroPte
    BY <1>3, <2>2, EntryIs DEF zero_page, Contents
  <2> HIDE DEF T2, page
  <2>5. Under(T2, {page}) = {} /\ Under(T2, {}) = {}
    <3>1. \A x : x \notin Under(T2, {page})
      BY <2>4, EntryIs, UnderIs
    <3> QED BY <3>1, NoRoot
  <2>6. Shape(T2, free \ {page}, pool, {page}, {}, {})
    <3>1. Linked(T2, {page} \cup {})
      BY <2>4, EntryIs DEF Linked
    <3> QED BY <1>3, <2>1, <2>4, <2>5, <3>1 DEF Shape, Levels, Apart
  <2>7. Top(page) = {page}
    BY <2>2 DEF Top
  <2>8. Tree(T2, free \ {page}, pool, page)
    BY <2>5, <2>6, <2>7 DEF Tree
  <2>9. TypeOK'
    BY <1>1, <1>2, <1>3, <2>1, <2>3, <2>4 DEF TypeOK, Contents
  <2>10. Boot'
    BY <1>2, <2>3, RegionsAre DEF Boot
  <2> QED BY <1>2, <2>3, <2>8, <2>9, <2>10 DEF TInv
<1> QED BY <1>4, <1>5

(* What map_range leaves behind before its loop. *)
LEMMA MapRangeTypes ==
  ASSUME TInv, NEW va \in Addr, NEW pa \in Addr, NEW size \in Addr,
         NEW flags \in {Ram, Device}, map_range(va, pa, size, flags)
  PROVE  /\ loop' \subseteq [call : Call, cur_va : PageAddr, cur_pa : PageAddr,
                             end : PageAddr, flags : {Ram, Device}]
         /\ granted' \subseteq Call
<1> DEFINE call == [va |-> va, pa |-> pa, size |-> size]
           end  == range_end(va, size)
<1>1. call \in Call
  BY DEF Call
<1>2. end \in PageAddr
  <2>1. va \in Nat /\ size \in Nat
    BY AlignIs
  <2>2. plus(va, size) \in Addr
    BY <2>1, PlusIs
  <2> QED BY <2>2, AlignIs DEF range_end
<1>3. aligned(va, pa) => va \in PageAddr /\ pa \in PageAddr
  BY DEF aligned, PageAddr
<1>4. granted \subseteq Call
  BY DEF TInv, TypeOK
<1>5. granted' \subseteq granted \cup {call}
  BY DEF map_range
<1>6. /\ loop' \subseteq {[call |-> call, cur_va |-> va, cur_pa |-> pa, flags |-> flags,
                           end |-> end]}
      /\ loop' # {} => aligned(va, pa)
  BY DEF map_range
<1> HIDE DEF call, end
<1> QED BY <1>1, <1>2, <1>3, <1>4, <1>5, <1>6

LEMMA MapRegionKeeps ==
  ASSUME TInv, MapRegion
  PROVE  TInv'
<1> DEFINE r == Head(todo)
<1>1. TypeOK /\ Boot /\ Tree(mem, free, pool, g_kernel_page_table)
  BY DEF TInv
<1>2. r \in Region /\ todo' \in Seq(Region) /\ todo # <<>>
  BY <1>1 DEF MapRegion, Boot
<1>3. r.va \in Addr /\ r.size \in Addr /\ r.flags \in {Ram, Device}
  BY <1>2 DEF Region
<1>4. /\ map_range(r.va, r.va, r.size, r.flags)
      /\ UNCHANGED <<mem, free, g_kernel_page_table, satp, phase, pool>>
  BY DEF MapRegion
<1> HIDE DEF r
<1>5. /\ loop' \subseteq [call : Call, cur_va : PageAddr, cur_pa : PageAddr,
                          end : PageAddr, flags : {Ram, Device}]
      /\ granted' \subseteq Call
  BY <1>3, <1>4, MapRangeTypes
<1>6. TypeOK'
  BY <1>1, <1>4, <1>5 DEF TypeOK
<1>7. Boot'
  BY <1>1, <1>2, <1>4 DEF Boot
<1> QED BY <1>1, <1>4, <1>6, <1>7 DEF TInv

LEMMA MapTurnKeeps ==
  ASSUME TInv, MapTurn
  PROVE  TInv'
<1> DEFINE root == g_kernel_page_table
<1>1. TypeOK /\ Boot /\ Tree(mem, free, pool, root)
  BY DEF TInv
<1>2. PICK l \in loop : Turn(l)
  BY DEF MapTurn
<1>3. UNCHANGED <<g_kernel_page_table, satp, phase, todo, pool>>
  BY DEF MapTurn
<1>4. l \in [call : Call, cur_va : PageAddr, cur_pa : PageAddr, end : PageAddr,
             flags : {Ram, Device}]
  BY <1>1 DEF TypeOK
<1>5. /\ l.call \in Call /\ l.cur_va \in PageAddr /\ l.cur_pa \in PageAddr
      /\ l.flags \in SUBSET Flag
  BY <1>4 DEF Ram, Device, Flag
<1>6. root \in PageAddr /\ free \subseteq pool /\ pool \subseteq Frames
  <2>1. root \in pool \cup {nullptr} /\ free \subseteq pool /\ pool \subseteq Frames
    BY <1>1 DEF TypeOK, Frames
  <2> QED BY <2>1, FramesArePages, PageAddrIs
<1> DEFINE m    == map_page(root, l.cur_va, l.cur_pa, l.flags)
           next == [l EXCEPT !.cur_va = plus(l.cur_va, kPageSize),
                             !.cur_pa = plus(l.cur_pa, kPageSize)]
<1>7. m \in WalkRecord(pool) /\ Tree(m.tables, m.avail, pool, root)
  BY <1>1, <1>5, <1>6, MapPageKeeps
<1>8. /\ mem' = m.tables /\ free' = m.avail
      /\ loop' \subseteq {next} /\ granted' \subseteq granted \cup {l.call}
  BY <1>2 DEF Turn
<1> HIDE DEF m
<1>9. next \in [call : Call, cur_va : PageAddr, cur_pa : PageAddr, end : PageAddr,
                flags : {Ram, Device}]
  <2>1. plus(l.cur_va, kPageSize) \in PageAddr /\ plus(l.cur_pa, kPageSize) \in PageAddr
    BY <1>5, NextPage
  <2> QED BY <1>4, <2>1
<1> HIDE DEF next
<1>10. mem' \in Contents /\ free' \subseteq pool
  BY <1>7, <1>8 DEF WalkRecord
<1>11. TypeOK'
  BY <1>1, <1>3, <1>5, <1>8, <1>9, <1>10 DEF TypeOK, Contents
<1>12. Boot'
  <2>1. phase # "root"
    BY <1>1, <1>2 DEF Boot
  <2> QED BY <1>1, <1>3, <2>1 DEF Boot
<1> QED BY <1>3, <1>7, <1>8, <1>11, <1>12 DEF TInv

LEMMA EnableKeeps ==
  ASSUME TInv, enable_sv39
  PROVE  TInv'
<1> DEFINE root == g_kernel_page_table
<1>1. TypeOK /\ Boot /\ Tree(mem, free, pool, root)
  BY DEF TInv
<1>2. /\ UNCHANGED <<mem, free, g_kernel_page_table, todo, loop, granted, pool>>
      /\ phase' = "paging" /\ satp' = [mode |-> "Sv39", ppn |-> root \div kPageSize]
  BY DEF enable_sv39, make_satp
<1>3. root \in PageAddr
  <2>1. root \in pool \cup {nullptr} /\ pool \subseteq Frames
    BY <1>1 DEF TypeOK, Frames
  <2> QED BY <2>1, FramesArePages, PageAddrIs
<1>4. root \div kPageSize \in 0..(AddrSpace \div kPageSize - 1)
  BY <1>3, PageAddrIs DEF PageCount
<1>5. TypeOK'
  BY <1>1, <1>2, <1>4 DEF TypeOK
<1>6. Boot'
  BY <1>1, <1>2 DEF Boot
<1> QED BY <1>1, <1>2, <1>5, <1>6 DEF TInv

LEMMA CallMapRangeKeeps ==
  ASSUME TInv, NEW va \in CallVAs, NEW pa \in CallPAs, NEW size \in CallSizes,
         CallMapRange(va, pa, size)
  PROVE  TInv'
<1>1. TypeOK /\ Boot /\ Tree(mem, free, pool, g_kernel_page_table)
  BY DEF TInv
<1>2. va \in Addr /\ pa \in Addr /\ size \in Addr
  BY TableAssumption
<1>3. /\ map_range(va, pa, size, Ram) /\ phase = "paging"
      /\ UNCHANGED <<mem, free, g_kernel_page_table, satp, phase, todo, pool>>
  BY DEF CallMapRange
<1>4. /\ loop' \subseteq [call : Call, cur_va : PageAddr, cur_pa : PageAddr,
                          end : PageAddr, flags : {Ram, Device}]
      /\ granted' \subseteq Call
  BY <1>2, <1>3, MapRangeTypes
<1>5. TypeOK'
  BY <1>1, <1>3, <1>4 DEF TypeOK
<1>6. Boot'
  BY <1>1, <1>3 DEF Boot
<1> QED BY <1>1, <1>3, <1>5, <1>6 DEF TInv

(* The table an unmap ends on is one of the lowest level. *)
LEMMA LeafTableIs ==
  ASSUME NEW root, NEW va \in Nat, NEW A, NEW F, Tree(mem, A, F, root),
         LeafTable(root, va) # nullptr
  PROVE  LeafTable(root, va) \in Stratum(mem, root, 0)
<1> DEFINE e2 == mem[root][vpn_index(va, 2)]
           t1 == pte_to_pa(e2)
           e1 == mem[t1][vpn_index(va, 1)]
<1>1. /\ root # nullptr /\ pte_valid(e2) /\ pte_valid(e1)
      /\ LeafTable(root, va) = pte_to_pa(e1)
  BY DEF LeafTable
<1>2. vpn_index(va, 2) \in Index /\ vpn_index(va, 1) \in Index
  BY IndexOf
<1>3. root \in Top(root)
  BY <1>1 DEF Top
<1>4. t1 \in Under(mem, Top(root))
  BY <1>1, <1>2, <1>3, UnderIs
<1>5. pte_to_pa(e1) \in Under(mem, Under(mem, Top(root)))
  BY <1>1, <1>2, <1>4, UnderIs
<1> QED BY <1>1, <1>5 DEF Stratum

LEMMA CallUnmapKeeps ==
  ASSUME TInv, NEW va \in CallVAs, CallUnmap(va)
  PROVE  TInv'
<1> DEFINE root == g_kernel_page_table
           t    == LeafTable(root, va)
           i    == vpn_index(va, 0)
<1>1. TypeOK /\ Boot /\ Tree(mem, free, pool, root)
  BY DEF TInv
<1>2. va \in Nat
  <2>1. va \in Addr
    BY TableAssumption
  <2> QED BY <2>1, AlignIs
<1>3. /\ t # nullptr /\ mem' = [mem EXCEPT ![t][i] = ZeroPte]
      /\ granted' \subseteq granted /\ phase = "paging"
      /\ UNCHANGED <<free, g_kernel_page_table, satp, phase, todo, loop, pool>>
  BY DEF CallUnmap, unmap_page
<1>4. i \in Index /\ ZeroPte \in Pte
  BY <1>2, IndexOf, EntryIs
<1>5. t \in Stratum(mem, root, 0)
  BY <1>1, <1>2, <1>3, LeafTableIs
<1>6. mem' \in Contents /\ Tree(mem', free, pool, root)
  <2> HIDE DEF t, i
  <2> QED BY <1>1, <1>3, <1>4, <1>5, WriteEntry
<1> HIDE DEF t, i
<1>7. TypeOK'
  BY <1>1, <1>3, <1>6 DEF TypeOK, Contents
<1>8. Boot'
  BY <1>1, <1>3 DEF Boot
<1> QED BY <1>3, <1>6, <1>7, <1>8 DEF TInv

LEMMA StutterKeeps ==
  ASSUME TInv, UNCHANGED vars
  PROVE  TInv'
<1>1. TypeOK'
  BY DEF TInv, TypeOK, vars
<1>2. Boot'
  BY DEF TInv, Boot, vars
<1> QED BY <1>1, <1>2 DEF TInv, vars

LEMMA TreeAlways == Spec => []TInv
<1>1. Init => TInv
  BY InitHolds
<1>2. TInv /\ [Next]_vars => TInv'
  <2> SUFFICES ASSUME TInv, [Next]_vars PROVE TInv'
    OBVIOUS
  <2>1. CASE AllocRoot
    BY <2>1, AllocRootKeeps
  <2>2. CASE MapRegion
    BY <2>2, MapRegionKeeps
  <2>3. CASE MapTurn
    BY <2>3, MapTurnKeeps
  <2>4. CASE enable_sv39
    BY <2>4, EnableKeeps
  <2>5. CASE \E va \in CallVAs, pa \in CallPAs, size \in CallSizes :
               CallMapRange(va, pa, size)
    BY <2>5, CallMapRangeKeeps
  <2>6. CASE \E va \in CallVAs : CallUnmap(va)
    BY <2>6, CallUnmapKeeps
  <2>7. CASE UNCHANGED vars
    BY <2>7, StutterKeeps
  <2> QED BY <2>1, <2>2, <2>3, <2>4, <2>5, <2>6, <2>7 DEF Next
<1> QED BY <1>1, <1>2, PTL DEF Spec

(* Types of the tables, the control state and the histories, for every     *)
(* page size, fan-out, layout of memory and argument (page_table.cpp,      *)
(* kernel_address_space.cpp, mmu.cpp).                                     *)
THEOREM TypesOfTables == Spec => []TypeOK
<1>1. TInv => TypeOK
  BY DEF TInv
<1> QED BY <1>1, TreeAlways, PTL

-----------------------------------------------------------------------------
(* Counting *)

(* Linked tables have as many links as tables below them. *)
LEMMA LinksCount ==
  ASSUME NEW T, NEW S \in SUBSET Frames, Linked(T, S)
  PROVE  /\ IsFiniteSet(S) /\ IsFiniteSet(LinksOf(T, S)) /\ IsFiniteSet(Under(T, S))
         /\ Cardinality(LinksOf(T, S)) = Cardinality(Under(T, S))
<1> DEFINE L == LinksOf(T, S)
           U == Under(T, S)
           f == [l \in L |-> pte_to_pa(T[l[1]][l[2]])]
<1>1. IsFiniteSet(S) /\ IsFiniteSet(Index)
  <2>1. AddrSpace - 1 \in Int /\ Fanout - 1 \in Int
    BY PageAssumption, TableAssumption
  <2>2. IsFiniteSet(0..(AddrSpace - 1)) /\ IsFiniteSet(0..(Fanout - 1))
    BY <2>1, FS_Interval
  <2>3. S \in SUBSET (0..(AddrSpace - 1))
    BY FramesArePages, PageAddrIs DEF Addr
  <2> QED BY <2>2, <2>3, FS_Subset DEF Index
<1>2. IsFiniteSet(L)
  <2>1. IsFiniteSet(S \X Index)
    BY <1>1, FS_Product
  <2>2. L \in SUBSET (S \X Index)
    BY DEF LinksOf
  <2> QED BY <2>1, <2>2, FS_Subset
<1>3. \A l \in L : /\ l[1] \in S /\ l[2] \in Index /\ l = <<l[1], l[2]>>
                   /\ pte_valid(T[l[1]][l[2]])
  BY DEF LinksOf
<1>4. f \in Surjection(L, U)
  BY DEF Under, Surjection
<1>5. f \in Injection(L, U)
  <2>1. f \in [L -> U]
    BY <1>4 DEF Surjection
  <2>2. ASSUME NEW l \in L, NEW k \in L, f[l] = f[k] PROVE l = k
    <3>1. pte_to_pa(T[l[1]][l[2]]) = pte_to_pa(T[k[1]][k[2]])
      BY <2>2
    <3>2. l[1] = k[1] /\ l[2] = k[2]
      <4> HIDE DEF L
      <4> QED BY <1>3, <3>1 DEF Linked
    <3> QED BY <1>3, <3>2
  <2> HIDE DEF f
  <2>3. IsInjective(f)
    BY <2>1, <2>2 DEF IsInjective
  <2> QED BY <2>1, <2>3 DEF Injection
<1> HIDE DEF f, L, U
<1>6. IsFiniteSet(U) /\ Cardinality(U) = Cardinality(L)
  BY <1>2, <1>4, <1>5, FS_Surjection
<1> QED BY <1>1, <1>2, <1>6 DEF L, U

LEMMA CountApart ==
  ASSUME NEW S, NEW T, IsFiniteSet(S), IsFiniteSet(T), S \cap T = {}
  PROVE  /\ IsFiniteSet(S \cup T)
         /\ Cardinality(S \cup T) = Cardinality(S) + Cardinality(T)
<1>1. Cardinality(S) \in Nat /\ Cardinality(T) \in Nat
  BY FS_CardinalityType
<1>2. Cardinality(S \cap T) = 0
  BY FS_EmptySet
<1>3. /\ IsFiniteSet(S \cup T)
      /\ Cardinality(S \cup T) = Cardinality(S) + Cardinality(T) - Cardinality(S \cap T)
  BY FS_Union
<1> QED BY <1>1, <1>2, <1>3

(* A tree accounts for every page of the pool. *)
LEMMA TreeAccounts ==
  ASSUME TInv
  PROVE  FramesAccounted
<1> DEFINE root == g_kernel_page_table
           l2   == Top(root)
           l1   == Under(mem, l2)
           l0   == Under(mem, l1)
<1>1. Shape(mem, free, pool, l2, l1, l0)
  BY DEF TInv, Tree
<1>2. /\ Level(2) = l2 /\ Level(1) = l1 /\ Level(0) = l0
      /\ Links(Level(2)) = LinksOf(mem, l2) /\ Links(Level(1)) = LinksOf(mem, l1)
  BY DEF Level, Below, Links, Under, LinksOf, Top
<1> HIDE DEF l2, l1, l0
<1>3. /\ pool = free \cup l2 \cup l1 \cup l0 /\ pool \subseteq Frames
      /\ l1 = Under(mem, l2) /\ l0 = Under(mem, l1)
      /\ Apart(free, l2, l1, l0) /\ Linked(mem, l2 \cup l1)
  BY <1>1 DEF Shape, Levels
<1>4. Linked(mem, l2) /\ Linked(mem, l1) /\ Linked(mem, {})
  BY <1>3 DEF Linked
<1>5. /\ IsFiniteSet(l2) /\ IsFiniteSet(l1) /\ IsFiniteSet(l0)
      /\ Cardinality(LinksOf(mem, l2)) = Cardinality(l1)
      /\ Cardinality(LinksOf(mem, l1)) = Cardinality(l0)
  BY <1>3, <1>4, LinksCount
<1>6. IsFiniteSet(free)
  <2>1. AddrSpace - 1 \in Int /\ free \in SUBSET (0..(AddrSpace - 1))
    BY <1>3, PageAssumption, FramesArePages, PageAddrIs DEF Addr
  <2>2. IsFiniteSet(0..(AddrSpace - 1))
    BY <2>1, FS_Interval
  <2> QED BY <2>1, <2>2, FS_Subset
<1>7. /\ IsFiniteSet(free \cup l2)
      /\ Cardinality(free \cup l2) = Cardinality(free) + Cardinality(l2)
  BY <1>3, <1>5, <1>6, CountApart DEF Apart
<1>8. /\ IsFiniteSet(free \cup l2 \cup l1)
      /\ Cardinality(free \cup l2 \cup l1) = Cardinality(free \cup l2) + Cardinality(l1)
  <2>1. (free \cup l2) \cap l1 = {}
    BY <1>3 DEF Apart
  <2> QED BY <1>5, <1>7, <2>1, CountApart
<1>9. Cardinality(free \cup l2 \cup l1 \cup l0)
        = Cardinality(free \cup l2 \cup l1) + Cardinality(l0)
  <2>1. (free \cup l2 \cup l1) \cap l0 = {}
    BY <1>3 DEF Apart
  <2> QED BY <1>5, <1>8, <2>1, CountApart
<1>10. Cardinality(pool) = Cardinality(free) + Cardinality(l2)
         + Cardinality(LinksOf(mem, l2)) + Cardinality(LinksOf(mem, l1))
  BY <1>3, <1>5, <1>7, <1>8, <1>9
<1> QED BY <1>2, <1>3, <1>10 DEF FramesAccounted

(* What is not free is a table. *)
LEMMA TreeTables ==
  ASSUME TInv
  PROVE  pool \ free = Level(2) \cup Level(1) \cup Level(0)
<1> DEFINE l2 == Top(g_kernel_page_table)
           l1 == Under(mem, l2)
           l0 == Under(mem, l1)
<1>1. Shape(mem, free, pool, l2, l1, l0)
  BY DEF TInv, Tree
<1>2. Level(2) = l2 /\ Level(1) = l1 /\ Level(0) = l0
  BY DEF Level, Below, Links, Under, LinksOf, Top
<1> HIDE DEF l2, l1, l0
<1> QED BY <1>1, <1>2 DEF Shape, Apart

(* No page is lost or has two uses: those that were free when boot started *)
(* are free or a table of exactly one place in the tree, also when a walk  *)
(* runs out of pages half way down (page_table.cpp:52-73).                 *)
THEOREM FramesAreAccounted == Spec => []FramesAccounted
<1>1. TInv => FramesAccounted
  BY TreeAccounts
<1> QED BY <1>1, TreeAlways, PTL

-----------------------------------------------------------------------------
(* Indices: two virtual addresses have the same three indices exactly when *)
(* they are in the same page.                                              *)

LEMMA DivDiv ==
  ASSUME NEW a \in Nat, NEW b \in Nat \ {0}, NEW c \in Nat \ {0}
  PROVE  a \div (b * c) = (a \div b) \div c /\ b * c \in Nat \ {0}
<1> DEFINE q == a \div b
           r == a % b
           s == q \div c
           u == q % c
<1>1. q \in Nat /\ r \in 0..(b - 1) /\ b * q \in Nat /\ a = b * q + r
  BY DivMod
<1> HIDE DEF q, r
<1>2. s \in Nat /\ u \in 0..(c - 1) /\ c * s \in Nat /\ q = c * s + u
  BY <1>1, DivMod
<1> HIDE DEF s, u
<1>3. b * c \in Nat \ {0}
  OBVIOUS
<1>4. b * q = (b * c) * s + b * u
  BY <1>1, <1>2
<1>5. b * u \in Nat /\ b * u + b <= b * c
  BY <1>2, Multiples
<1>6. (b * c) * s \in Nat
  BY <1>2, <1>3, Multiples
<1> DEFINE d == b * c
           m == b * u
           k == d * s
<1>7. a = k + (m + r) /\ m + r \in 0..(d - 1)
  BY <1>1, <1>3, <1>4, <1>5, <1>6
<1> HIDE DEF m
<1>8. (d * s + (m + r)) \div d = s
  <2> HIDE DEF d, k
  <2>1. d \in Nat \ {0}
    BY <1>3 DEF d
  <2> QED BY <1>2, <1>7, <2>1, DivModUnique
<1> QED BY <1>3, <1>7, <1>8 DEF s, q

Vpn(a) == a \div kPageSize

SameSlot(a, b) == \A k \in 0..2 : vpn_index(a, k) = vpn_index(b, k)

LEMMA IndexIs ==
  ASSUME NEW a \in Nat
  PROVE  /\ Vpn(a) \in Nat
         /\ vpn_index(a, 0) = Vpn(a) % Fanout
         /\ vpn_index(a, 1) = (Vpn(a) \div Fanout) % Fanout
         /\ vpn_index(a, 2) = ((Vpn(a) \div Fanout) \div Fanout) % Fanout
<1>1. kPageSize \in Nat \ {0} /\ Fanout \in Nat \ {0}
  BY PageAssumption, TableAssumption
<1>2. Vpn(a) \in Nat
  BY <1>1, DivMod DEF Vpn
<1>3. /\ kPageSize * Fanout \in Nat \ {0}
      /\ a \div (kPageSize * Fanout) = (a \div kPageSize) \div Fanout
  BY <1>1, DivDiv
<1>4. a \div ((kPageSize * Fanout) * Fanout) = (a \div (kPageSize * Fanout)) \div Fanout
  <2> DEFINE b == kPageSize * Fanout
  <2>1. b \in Nat \ {0}
    BY <1>3
  <2> HIDE DEF b
  <2>2. a \div (b * Fanout) = (a \div b) \div Fanout
    BY <1>1, <2>1, DivDiv
  <2> QED BY <2>2 DEF b
<1>5. /\ Span[1] = kPageSize /\ Span[2] = kPageSize * Fanout
      /\ Span[3] = (kPageSize * Fanout) * Fanout
  BY DEF Span
<1>6. 0 + 1 = 1 /\ 1 + 1 = 2 /\ 2 + 1 = 3
  OBVIOUS
<1> QED BY <1>2, <1>3, <1>4, <1>5, <1>6, Zenon DEF vpn_index, Vpn

(* The three digits of a number below the cube of the base determine it. *)
LEMMA Digits ==
  ASSUME NEW f \in Nat \ {0}, NEW n \in Nat, n < f * f * f
  PROVE  (n \div f) \div f \in 0..(f - 1) /\ ((n \div f) \div f) % f = (n \div f) \div f
<1> DEFINE m == n \div f
           k == m \div f
<1>1. m \in Nat /\ n % f \in 0..(f - 1) /\ f * m \in Nat /\ n = f * m + (n % f)
  BY DivMod
<1> HIDE DEF m
<1>2. k \in Nat /\ m % f \in 0..(f - 1) /\ f * k \in Nat /\ m = f * k + (m % f)
  BY <1>1, DivMod
<1> HIDE DEF k
<1>3. f * f \in Nat /\ f * (f * f) = f * f * f
  OBVIOUS
<1>4. f * m < f * (f * f)
  BY <1>1, <1>3
<1>5. m < f * f
  <2> DEFINE g == f * f
  <2>1. g \in Nat /\ f * m < f * g
    BY <1>3, <1>4
  <2> HIDE DEF g
  <2>2. m < g
    BY <1>1, <2>1, Multiples
  <2> QED BY <2>2 DEF g
<1>6. f * k < f * f
  BY <1>2, <1>5
<1>7. k < f
  BY <1>2, <1>6, Multiples
<1>8. k \in 0..(f - 1) /\ 0 \in Nat /\ f * 0 + k = k
  BY <1>2, <1>7
<1>9. k \in 0..(f - 1) /\ k % f = k
  <2>1. (f * 0 + k) % f = k
    BY <1>8, DivModUnique
  <2> QED BY <1>8, <2>1
<1> QED BY <1>9 DEF k, m

LEMMA DigitsDetermine ==
  ASSUME NEW f \in Nat \ {0}, NEW n \in Nat, NEW o \in Nat,
         n < f * f * f, o < f * f * f,
         n % f = o % f, (n \div f) % f = (o \div f) % f,
         ((n \div f) \div f) % f = ((o \div f) \div f) % f
  PROVE  n = o
<1> DEFINE m == n \div f
           p == o \div f
<1>1. (m \div f) = (p \div f)
  BY Digits
<1>2. m \in Nat /\ n = f * m + (n % f) /\ p \in Nat /\ o = f * p + (o % f)
  BY DivMod
<1> HIDE DEF m, p
<1>3. m = f * (m \div f) + (m % f) /\ p = f * (p \div f) + (p % f)
  BY <1>2, DivMod
<1>4. m % f = p % f
  BY DEF m, p
<1>5. m = p
  BY <1>1, <1>3, <1>4
<1> QED BY <1>2, <1>5

LEMMA VpnIs ==
  ASSUME NEW x \in VAddr
  PROVE  x \in Nat /\ Vpn(x) \in Nat /\ Vpn(x) < Fanout * Fanout * Fanout
<1>1. kPageSize \in Nat \ {0} /\ Fanout \in Nat \ {0}
  BY PageAssumption, TableAssumption
<1>2. Fanout * Fanout \in Nat
  BY <1>1
<1> DEFINE C == Fanout * Fanout * Fanout
           q == x \div kPageSize
<1>3. C \in Nat /\ VAddr = 0..(C * kPageSize - 1)
  BY <1>1, <1>2 DEF VAddr, VSize
<1> HIDE DEF C
<1>4. C * kPageSize \in Nat /\ C * kPageSize = kPageSize * C
  BY <1>1, <1>3
<1>5. x \in Nat /\ x < kPageSize * C
  BY <1>3, <1>4
<1>6. /\ q \in Nat /\ kPageSize * q \in Nat /\ x % kPageSize \in 0..(kPageSize - 1)
      /\ x = kPageSize * q + (x % kPageSize)
  BY <1>1, <1>5, DivMod
<1> HIDE DEF q
<1>7. kPageSize * q < kPageSize * C
  BY <1>1, <1>3, <1>4, <1>5, <1>6
<1>8. q < C
  BY <1>1, <1>3, <1>6, <1>7, Multiples
<1> QED BY <1>5, <1>6, <1>8 DEF q, Vpn, C

LEMMA SlotIsPage ==
  ASSUME NEW a \in VAddr, NEW b \in VAddr
  PROVE  SameSlot(a, b) <=> Vpn(a) = Vpn(b)
<1>1. Fanout \in Nat \ {0}
  BY TableAssumption
<1>3. ASSUME NEW x \in VAddr PROVE x \in Nat /\ Vpn(x) \in Nat /\ Vpn(x) < Fanout * Fanout * Fanout
  BY VpnIs
<1>4. a \in Nat /\ b \in Nat
  BY <1>3
<1>5. ASSUME SameSlot(a, b) PROVE Vpn(a) = Vpn(b)
  <2>1. /\ vpn_index(a, 0) = vpn_index(b, 0) /\ vpn_index(a, 1) = vpn_index(b, 1)
        /\ vpn_index(a, 2) = vpn_index(b, 2)
    BY <1>5 DEF SameSlot
  <2>2. /\ Vpn(a) % Fanout = Vpn(b) % Fanout
        /\ (Vpn(a) \div Fanout) % Fanout = (Vpn(b) \div Fanout) % Fanout
        /\ ((Vpn(a) \div Fanout) \div Fanout) % Fanout
             = ((Vpn(b) \div Fanout) \div Fanout) % Fanout
    BY <1>4, <2>1, IndexIs
  <2>3. Vpn(a) \in Nat /\ Vpn(b) \in Nat /\ Vpn(a) < Fanout * Fanout * Fanout
        /\ Vpn(b) < Fanout * Fanout * Fanout
    BY <1>3
  <2> QED BY <1>1, <2>2, <2>3, DigitsDetermine, Zenon
<1>6. ASSUME Vpn(a) = Vpn(b) PROVE SameSlot(a, b)
  <2>1. /\ vpn_index(a, 0) = vpn_index(b, 0) /\ vpn_index(a, 1) = vpn_index(b, 1)
        /\ vpn_index(a, 2) = vpn_index(b, 2)
    BY <1>4, <1>6, IndexIs
  <2>2. \A k \in 0..2 : k = 0 \/ k = 1 \/ k = 2
    OBVIOUS
  <2> QED BY <2>1, <2>2, Zenon DEF SameSlot
<1> QED BY <1>5, <1>6

-----------------------------------------------------------------------------
(* Translation, of any contents T of the frames: the entry of each level   *)
(* on the way down, and what virt_to_phys makes of them.                   *)

Entry2(T, root, a) == T[root][vpn_index(a, 2)]
Table1(T, root, a) == pte_to_pa(Entry2(T, root, a))
Entry1(T, root, a) == T[Table1(T, root, a)][vpn_index(a, 1)]
Table0(T, root, a) == pte_to_pa(Entry1(T, root, a))
Entry0(T, root, a) == T[Table0(T, root, a)][vpn_index(a, 0)]

Upper(T, root, a) ==
  root # nullptr /\ pte_valid(Entry2(T, root, a)) /\ pte_valid(Entry1(T, root, a))
Mapped(pte) == pte_valid(pte) /\ pte_leaf(pte)
Leaf(T, root, a) ==
  IF Upper(T, root, a) /\ Mapped(Entry0(T, root, a)) THEN Entry0(T, root, a) ELSE ZeroPte
Phys(T, root, a) ==
  IF Mapped(Leaf(T, root, a)) THEN pte_to_pa(Leaf(T, root, a)) + page_offset(a) ELSE 0

(* Where the way down leads in a tree. *)
LEMMA Places ==
  ASSUME NEW T, NEW A, NEW F, NEW root, Tree(T, A, F, root), root # nullptr, NEW a \in Nat
  PROVE  /\ root \in Top(root)
         /\ pte_valid(Entry2(T, root, a)) =>
              /\ Table1(T, root, a) \in Under(T, Top(root))
              /\ ~pte_leaf(Entry2(T, root, a))
         /\ Upper(T, root, a) =>
              /\ Table0(T, root, a) \in Under(T, Under(T, Top(root)))
              /\ ~pte_leaf(Entry1(T, root, a))
<1> DEFINE l2 == Top(root)
           l1 == Under(T, l2)
           i2 == vpn_index(a, 2)
           i1 == vpn_index(a, 1)
           t1 == Table1(T, root, a)
<1>1. root \in l2
  BY DEF Top
<1>2. i2 \in Index /\ i1 \in Index
  BY IndexOf
<1>3. Linked(T, l2 \cup l1)
  BY DEF Tree, Shape
<1>4. ASSUME pte_valid(T[root][i2])
      PROVE  pte_to_pa(T[root][i2]) \in l1 /\ ~pte_leaf(T[root][i2])
  <2>1. pte_to_pa(T[root][i2]) \in l1
    BY <1>1, <1>2, <1>4, UnderIs
  <2> HIDE DEF l2, l1, i2
  <2> QED BY <1>1, <1>2, <1>3, <1>4, <2>1 DEF Linked
<1>5. ASSUME t1 \in l1, pte_valid(T[t1][i1])
      PROVE  pte_to_pa(T[t1][i1]) \in Under(T, l1) /\ ~pte_leaf(T[t1][i1])
  <2>1. pte_to_pa(T[t1][i1]) \in Under(T, l1)
    BY <1>2, <1>5, UnderIs
  <2> HIDE DEF l2, l1, t1, i1
  <2> QED BY <1>2, <1>3, <1>5, <2>1 DEF Linked
<1> QED BY <1>1, <1>4, <1>5 DEF Upper, Entry2, Entry1, Table1, Table0

(* What virt_to_phys answers. *)
LEMMA PhysIs ==
  ASSUME NEW A, NEW F, NEW root, Tree(mem, A, F, root), NEW a \in Nat
  PROVE  virt_to_phys(root, a) = Phys(mem, root, a)
<1> DEFINE e2 == Entry2(mem, root, a)
           e1 == Entry1(mem, root, a)
           e0 == Entry0(mem, root, a)
<1>1. CASE root = nullptr
  BY <1>1, EntryIs DEF virt_to_phys, Phys, Leaf, Mapped, Upper
<1>2. CASE root # nullptr
  <2>1. Walk(a, root) = IF pte_leaf(e2) \/ ~pte_valid(e2) THEN e2
                        ELSE IF pte_leaf(e1) \/ ~pte_valid(e1) THEN e1 ELSE e0
    BY DEF Walk, Entry2, Entry1, Entry0, Table1, Table0
  <2>2. pte_valid(e2) => ~pte_leaf(e2)
    BY <1>2, Places
  <2>3. pte_valid(e2) /\ pte_valid(e1) => ~pte_leaf(e1)
    BY <1>2, Places DEF Upper
  <2> HIDE DEF e2, e1, e0
  <2>4. Phys(mem, root, a) = IF pte_valid(e2) /\ pte_valid(e1) /\ pte_valid(e0) /\ pte_leaf(e0)
                             THEN pte_to_pa(e0) + page_offset(a) ELSE 0
    BY <1>2, EntryIs DEF Phys, Leaf, Upper, Mapped, e2, e1, e0
  <2> QED BY <1>2, <2>1, <2>2, <2>3, <2>4 DEF virt_to_phys
<1> QED BY <1>1, <1>2

(* A new table changes no translation. *)
LEMMA AttachSame ==
  ASSUME NEW T, NEW A, NEW F, NEW root, Tree(T, A, F, root), root # nullptr,
         NEW t \in Top(root) \cup Under(T, Top(root)), NEW i \in Index,
         ~pte_valid(T[t][i]), NEW page \in A, NEW a \in Nat
  PROVE  Leaf(Attached(T, t, i, page), root, a) = Leaf(T, root, a)
<1> DEFINE l2 == Top(root)
           l1 == Under(T, l2)
           l0 == Under(T, l1)
           T2 == Attached(T, t, i, page)
           i2 == vpn_index(a, 2)
           i1 == vpn_index(a, 1)
           i0 == vpn_index(a, 0)
           t1 == Table1(T, root, a)
           t0 == Table0(T, root, a)
<1>1. Shape(T, A, F, l2, l1, l0)
  BY DEF Tree
<1>2. /\ page \notin l2 /\ page \notin l1 /\ page \notin l0
      /\ l2 \cap l1 = {} /\ l2 \cap l0 = {} /\ l1 \cap l0 = {}
      /\ l2 \subseteq Frames /\ l1 \subseteq Frames /\ l0 \subseteq Frames
  BY <1>1 DEF Shape, Apart
<1>3. i2 \in Index /\ i1 \in Index /\ i0 \in Index
  BY IndexOf
<1>4. /\ root \in l2
      /\ pte_valid(T[root][i2]) => t1 \in l1
      /\ pte_valid(T[root][i2]) /\ pte_valid(T[t1][i1]) => t0 \in l0
  BY Places DEF Upper, Entry2, Entry1, t1, t0
<1>5. /\ T2 \in Contents /\ pte_valid(T2[t][i]) /\ pte_to_pa(T2[t][i]) = page
      /\ \A j \in Index : T2[page][j] = ZeroPte
      /\ \A u \in Frames \ {page}, j \in Index : (u # t \/ j # i) => T2[u][j] = T[u][j]
  <2>1. T \in Contents /\ t \in Frames /\ page \in Frames /\ t # page
    BY <1>1, <1>2 DEF Shape
  <2> QED BY <2>1, AttachEntries
<1>6. ~pte_valid(ZeroPte)
  BY EntryIs
<1>7. /\ t1 = pte_to_pa(T[root][i2]) /\ t0 = pte_to_pa(T[t1][i1])
      /\ Leaf(T, root, a) =
           IF pte_valid(T[root][i2]) /\ pte_valid(T[t1][i1]) /\ Mapped(T[t0][i0])
           THEN T[t0][i0] ELSE ZeroPte
  BY DEF Leaf, Upper, Entry0, Entry1, Entry2, Table0, Table1
<1> DEFINE u1 == pte_to_pa(T2[root][i2])
           u0 == pte_to_pa(T2[u1][i1])
<1>8. Leaf(T2, root, a) =
        IF pte_valid(T2[root][i2]) /\ pte_valid(T2[u1][i1]) /\ Mapped(T2[u0][i0])
        THEN T2[u0][i0] ELSE ZeroPte
  BY DEF Leaf, Upper, Entry0, Entry1, Entry2, Table0, Table1
<1>9. t \in l2 \cup l1 /\ (t \in l2 => t = root)
  BY DEF Top
<1> HIDE DEF l2, l1, l0, T2, i2, i1, i0, t1, t0
<1>10. CASE t = root /\ i = i2
  <2>1. Leaf(T, root, a) = ZeroPte
    BY <1>7, <1>10
  <2>2. u1 = page
    BY <1>5, <1>10
  <2>3. ~pte_valid(T2[u1][i1])
    BY <1>3, <1>5, <1>6, <2>2
  <2> HIDE DEF u1, u0
  <2>4. Leaf(T2, root, a) = ZeroPte
    BY <1>8, <2>3
  <2> QED BY <2>1, <2>4 DEF T2
<1>11. CASE t # root \/ i # i2
  <2>1. T2[root][i2] = T[root][i2]
    BY <1>2, <1>3, <1>4, <1>5, <1>11
  <2>2. u1 = t1
    BY <1>7, <2>1
  <2>3. CASE ~pte_valid(T[root][i2])
    BY <1>7, <1>8, <2>1, <2>3 DEF T2
  <2>4. CASE pte_valid(T[root][i2])
    <3>1. t1 \in l1 /\ t1 \in Frames /\ t1 # page
      BY <1>2, <1>4, <2>4
    <3>2. CASE t = t1 /\ i = i1
      <4>1. Leaf(T, root, a) = ZeroPte
        BY <1>7, <3>2
      <4>2. u0 = page
        BY <1>5, <2>2, <3>2
      <4>3. ~Mapped(T2[u0][i0])
        BY <1>3, <1>5, <1>6, <4>2 DEF Mapped
      <4> HIDE DEF u1, u0
      <4>4. Leaf(T2, root, a) = ZeroPte
        BY <1>8, <4>3
      <4> QED BY <4>1, <4>4 DEF T2
    <3>3. CASE t # t1 \/ i # i1
      <4>1. T2[t1][i1] = T[t1][i1]
        BY <1>3, <1>5, <3>1, <3>3
      <4>2. u0 = t0
        BY <1>7, <2>2, <4>1
      <4>3. CASE ~pte_valid(T[t1][i1])
        BY <1>7, <1>8, <2>2, <4>1, <4>3 DEF T2
      <4>4. CASE pte_valid(T[t1][i1])
        <5>1. t0 \in l0
          BY <1>4, <2>4, <4>4
        <5>2. t0 \in Frames /\ t0 # page /\ t0 # t
          BY <1>2, <1>9, <5>1
        <5>3. T2[t0][i0] = T[t0][i0]
          BY <1>3, <1>5, <5>2
        <5> HIDE DEF T2, u1, u0, t1, t0, i2, i1, i0, l2, l1, l0
        <5>4. Leaf(T, root, a) = IF Mapped(T[t0][i0]) THEN T[t0][i0] ELSE ZeroPte
          BY <1>7, <2>4, <4>4
        <5>5. Leaf(T2, root, a) = IF Mapped(T2[t0][i0]) THEN T2[t0][i0] ELSE ZeroPte
          BY <1>8, <2>1, <2>2, <2>4, <4>1, <4>2, <4>4
        <5> QED BY <5>3, <5>4, <5>5 DEF T2
      <4> QED BY <4>3, <4>4
    <3> QED BY <3>2, <3>3
  <2> QED BY <2>3, <2>4
<1> QED BY <1>10, <1>11

(* Writing an entry of a table of the lowest level changes the translation *)
(* of the addresses with the same three indices, and of no other.          *)
LEMMA WriteMeans ==
  ASSUME NEW T, NEW A, NEW F, NEW root, Tree(T, A, F, root),
         NEW va \in Nat, Upper(T, root, va), NEW e \in Pte, NEW a \in Nat
  PROVE  LET T2 == [T EXCEPT ![Table0(T, root, va)][vpn_index(va, 0)] = e]
         IN /\ SameSlot(a, va) =>
                 /\ Upper(T, root, a) /\ Entry0(T, root, a) = Entry0(T, root, va)
                 /\ Upper(T2, root, a) /\ Entry0(T2, root, a) = e
            /\ ~SameSlot(a, va) => Leaf(T2, root, a) = Leaf(T, root, a)
<1> DEFINE l2 == Top(root)
           l1 == Under(T, l2)
           l0 == Under(T, l1)
           t  == Table0(T, root, va)
           i  == vpn_index(va, 0)
           T2 == [T EXCEPT ![t][i] = e]
           i2 == vpn_index(a, 2)
           i1 == vpn_index(a, 1)
           i0 == vpn_index(a, 0)
           t1 == Table1(T, root, a)
           t0 == Table0(T, root, a)
<1>1. Shape(T, A, F, l2, l1, l0) /\ root # nullptr
  BY DEF Tree, Upper
<1>2. /\ l2 \cap l0 = {} /\ l1 \cap l0 = {} /\ l2 \cap l1 = {} /\ T \in Contents
      /\ l2 \subseteq Frames /\ l1 \subseteq Frames /\ l0 \subseteq Frames
      /\ Linked(T, l2 \cup l1)
  BY <1>1 DEF Shape, Apart
<1>3. i2 \in Index /\ i1 \in Index /\ i0 \in Index /\ i \in Index
  BY IndexOf
<1>4. t \in l0 /\ root \in l2
  BY <1>1, Places
<1>5. /\ pte_valid(T[root][i2]) => t1 \in l1
      /\ pte_valid(T[root][i2]) /\ pte_valid(T[t1][i1]) => t0 \in l0
  BY <1>1, Places DEF Upper, Entry2, Entry1, t1, t0
<1>6. /\ T2[t][i] = e
      /\ \A u \in Frames, j \in Index : (u # t \/ j # i) => T2[u][j] = T[u][j]
  <2> HIDE DEF t, i, l0
  <2>1. t \in Frames
    BY <1>2, <1>4
  <2> QED BY <1>2, <1>3, <2>1 DEF Contents
<1>7. /\ t1 = pte_to_pa(T[root][i2]) /\ t0 = pte_to_pa(T[t1][i1])
      /\ Upper(T, root, a) <=> pte_valid(T[root][i2]) /\ pte_valid(T[t1][i1])
      /\ Entry0(T, root, a) = T[t0][i0]
      /\ Leaf(T, root, a) = IF Upper(T, root, a) /\ Mapped(T[t0][i0])
                            THEN T[t0][i0] ELSE ZeroPte
  BY <1>1 DEF Leaf, Upper, Entry0, Entry1, Entry2, Table0, Table1
<1> DEFINE u1 == pte_to_pa(T2[root][i2])
           u0 == pte_to_pa(T2[u1][i1])
<1>8. /\ Upper(T2, root, a) <=> pte_valid(T2[root][i2]) /\ pte_valid(T2[u1][i1])
      /\ Entry0(T2, root, a) = T2[u0][i0]
      /\ Leaf(T2, root, a) = IF Upper(T2, root, a) /\ Mapped(T2[u0][i0])
                             THEN T2[u0][i0] ELSE ZeroPte
  BY <1>1 DEF Leaf, Upper, Entry0, Entry1, Entry2, Table0, Table1
(* The upper levels are as before. *)
<1>9. /\ u1 = t1 /\ T2[root][i2] = T[root][i2]
      /\ pte_valid(T[root][i2]) => T2[t1][i1] = T[t1][i1] /\ u0 = t0
      /\ Upper(T2, root, a) <=> Upper(T, root, a)
  <2> HIDE DEF l2, l1, l0, t, i, T2, i2, i1, i0, t1, t0
  <2>1. T2[root][i2] = T[root][i2]
    BY <1>2, <1>3, <1>4, <1>6
  <2>2. u1 = t1
    BY <1>7, <2>1
  <2>3. pte_valid(T[root][i2]) => T2[t1][i1] = T[t1][i1]
    BY <1>2, <1>3, <1>4, <1>5, <1>6
  <2> QED BY <1>7, <1>8, <2>1, <2>2, <2>3
<1>10. ASSUME SameSlot(a, va)
       PROVE  /\ Upper(T, root, a) /\ Entry0(T, root, a) = Entry0(T, root, va)
              /\ Upper(T2, root, a) /\ Entry0(T2, root, a) = e
  <2>1. i2 = vpn_index(va, 2) /\ i1 = vpn_index(va, 1) /\ i0 = i
    BY <1>10 DEF SameSlot
  <2>2. t0 = t /\ Upper(T, root, a) /\ Entry0(T, root, a) = Entry0(T, root, va)
    BY <2>1 DEF Upper, Entry0, Entry1, Entry2, Table0, Table1
  <2> HIDE DEF l2, l1, l0, t, i, T2, i2, i1, i0, t1, t0
  <2> QED BY <1>6, <1>7, <1>8, <1>9, <2>1, <2>2
(* One table of the lowest level is reached by one pair of indices. *)
<1>11. ASSUME ~SameSlot(a, va), Upper(T, root, a), t0 = t PROVE i0 # i
  <2> DEFINE j2 == vpn_index(va, 2)
             j1 == vpn_index(va, 1)
             v1 == Table1(T, root, va)
  <2>1. j2 \in Index /\ j1 \in Index
    BY IndexOf
  <2>2. /\ pte_valid(T[root][j2]) /\ pte_valid(T[v1][j1])
        /\ v1 = pte_to_pa(T[root][j2]) /\ t = pte_to_pa(T[v1][j1])
    BY DEF Upper, Entry1, Entry2, Table0, Table1
  <2>3. v1 \in l1 /\ t1 \in l1
    <3>1. v1 \in l1
      BY <1>1, Places DEF Upper
    <3> QED BY <1>5, <1>7, <1>11, <3>1
  <2>4. ASSUME i0 = i, i1 = j1, i2 = j2 PROVE FALSE
    <3>1. \A k \in 0..2 : k = 0 \/ k = 1 \/ k = 2
      OBVIOUS
    <3> QED BY <1>11, <2>4, <3>1 DEF SameSlot
  <2> HIDE DEF l2, l1, l0, t, i, T2, i2, i1, i0, t1, t0, j2, j1, v1
  <2>5. t1 = v1 /\ i1 = j1
    <3>1. t1 \in l2 \cup l1 /\ v1 \in l2 \cup l1
      BY <2>3
    <3>2. /\ pte_valid(T[t1][i1]) /\ pte_valid(T[v1][j1])
          /\ pte_to_pa(T[t1][i1]) = pte_to_pa(T[v1][j1])
      BY <1>7, <1>11, <2>2
    <3> QED BY <1>2, <1>3, <2>1, <3>1, <3>2, OneLink, Zenon
  <2>6. i2 = j2
    <3>1. root \in l2 \cup l1
      BY <1>4
    <3>2. /\ pte_valid(T[root][i2]) /\ pte_valid(T[root][j2])
          /\ pte_to_pa(T[root][i2]) = pte_to_pa(T[root][j2])
      BY <1>7, <1>11, <2>2, <2>5
    <3> QED BY <1>2, <1>3, <2>1, <3>1, <3>2, OneLink, Zenon
  <2> QED BY <2>4, <2>5, <2>6
<1>12. ASSUME ~SameSlot(a, va) PROVE Leaf(T2, root, a) = Leaf(T, root, a)
  <2>1. CASE ~Upper(T, root, a)
    <3> HIDE DEF l2, l1, l0, t, i, T2, i2, i1, i0, t1, t0, u1, u0
    <3> QED BY <1>7, <1>8, <1>9, <2>1
  <2>2. CASE Upper(T, root, a)
    <3>1. t0 # t \/ i0 # i
      BY <1>11, <1>12, <2>2
    <3> HIDE DEF l2, l1, l0, t, i, T2, i2, i1, i0, t1, t0, u1, u0
    <3>2. t0 \in Frames
      BY <1>2, <1>5, <1>7, <2>2
    <3>3. T2[t0][i0] = T[t0][i0]
      BY <1>3, <1>6, <3>1, <3>2
    <3>4. Upper(T2, root, a) /\ u0 = t0
      BY <1>7, <1>9, <2>2
    <3>5. Leaf(T, root, a) = IF Mapped(T[t0][i0]) THEN T[t0][i0] ELSE ZeroPte
      BY <1>7, <2>2
    <3>6. Leaf(T2, root, a) = IF Mapped(T2[t0][i0]) THEN T2[t0][i0] ELSE ZeroPte
      BY <1>8, <3>4
    <3> QED BY <3>3, <3>5, <3>6
  <2> QED BY <2>1, <2>2
<1> QED BY <1>10, <1>12

-----------------------------------------------------------------------------
(* A walk that may go on stands where the address leads, and no walk       *)
(* changes a translation.                                                  *)

OnPath(w, root, va, n) ==
  w.ok => /\ root # nullptr
          /\ n = 2 => w.table = root
          /\ n = 1 => /\ pte_valid(Entry2(w.tables, root, va))
                      /\ w.table = Table1(w.tables, root, va)
          /\ n = 0 => /\ Upper(w.tables, root, va)
                      /\ w.table = Table0(w.tables, root, va)

SameSpace(T, U, root) == \A a \in Nat : Leaf(T, root, a) = Leaf(U, root, a)

LEMMA DescendFollows ==
  ASSUME NEW F, NEW root, NEW w, NEW va \in Nat, NEW n \in 1..2,
         Walked(w, F, root, n), OnPath(w, root, va, n)
  PROVE  /\ OnPath(Descend(w, va, n), root, va, n - 1)
         /\ SameSpace(Descend(w, va, n).tables, w.tables, root)
<1> DEFINE i    == vpn_index(va, n)
           T    == w.tables
           A    == w.avail
           t    == w.table
           pte  == T[t][i]
           l2   == Top(root)
           l1   == Under(T, l2)
           l0   == Under(T, l1)
           page == Min(A)
<1>1. /\ w \in WalkRecord(F) /\ Tree(T, A, F, root) /\ Shape(T, A, F, l2, l1, l0)
      /\ w.ok => t \in Stratum(T, root, n)
  BY DEF Walked, Tree
<1>2. i \in Index
  BY IndexOf
<1>3. n = 2 \/ n = 1
  OBVIOUS
<1>4. A \subseteq F /\ F \subseteq Frames /\ T \in Contents
  BY <1>1 DEF Shape
<1>5. CASE ~w.ok \/ (~pte_valid(pte) /\ A = {}) \/ (pte_valid(pte) /\ pte_leaf(pte))
  <2>1. Descend(w, va, n) = [w EXCEPT !.ok = FALSE]
    BY <1>5 DEF Descend
  <2>2. [w EXCEPT !.ok = FALSE].ok = FALSE /\ [w EXCEPT !.ok = FALSE].tables = T
    BY <1>1 DEF WalkRecord
  <2> QED BY <2>1, <2>2 DEF OnPath, SameSpace
<1>6. CASE w.ok /\ pte_valid(pte) /\ ~pte_leaf(pte)
  <2> DEFINE v == [w EXCEPT !.table = pte_to_pa(pte)]
  <2>1. Descend(w, va, n) = v
    BY <1>6 DEF Descend
  <2>2. v.table = pte_to_pa(pte) /\ v.tables = T
    BY <1>1 DEF WalkRecord
  <2> HIDE DEF v
  <2>3. CASE n = 2
    <3>1. root # nullptr /\ t = root
      BY <1>6, <2>3 DEF OnPath
    <3>2. pte_valid(Entry2(T, root, va)) /\ Table1(T, root, va) = pte_to_pa(pte)
      BY <1>6, <2>3, <3>1 DEF Entry2, Table1
    <3> QED BY <2>1, <2>2, <2>3, <3>1, <3>2 DEF OnPath, SameSpace
  <2>4. CASE n = 1
    <3>1. root # nullptr /\ pte_valid(Entry2(T, root, va)) /\ t = Table1(T, root, va)
      BY <1>6, <2>4 DEF OnPath
    <3>2. Upper(T, root, va) /\ Table0(T, root, va) = pte_to_pa(pte)
      BY <1>6, <2>4, <3>1 DEF Entry1, Table0, Upper
    <3> QED BY <2>1, <2>2, <2>4, <3>1, <3>2 DEF OnPath, SameSpace
  <2> QED BY <1>3, <2>3, <2>4
<1>7. CASE w.ok /\ ~pte_valid(pte) /\ A # {}
  <2> DEFINE T2 == Attached(T, t, i, page)
             v  == [ok |-> TRUE, avail |-> A \ {page}, table |-> page, tables |-> T2]
  <2>1. Descend(w, va, n) = v
    BY <1>7 DEF Descend, alloc_page_table, Attached
  <2>2. page \in A /\ page \in Frames
    <3>1. A \in SUBSET Nat
      BY <1>4, FramesArePages
    <3>2. page \in A
      BY <1>7, <3>1, Least
    <3> QED BY <1>4, <3>2
  <2>3. t \in l2 \cup l1 /\ (n = 2 => t \in l2) /\ (n = 1 => t \in l1) /\ root # nullptr
    BY <1>1, <1>3, <1>7 DEF Stratum, OnPath
  <2>4. t \in Frames /\ t # page /\ root \in l2 /\ root \in Frames /\ root # page
        /\ (t \in l1 => root # t)
    <3>1. root \in l2
      BY <2>3 DEF Top
    <3> HIDE DEF l2, l1, l0, page
    <3> QED BY <1>1, <2>2, <2>3, <3>1 DEF Shape, Apart
  <2>5. /\ T2[t][i] = make_pte(page, {"V"})
        /\ \A u \in Frames \ {t, page} : T2[u] = T[u]
    <3> HIDE DEF page, T, t, i
    <3> QED BY <1>2, <1>4, <2>2, <2>4, AttachedIs
  <2>6. pte_valid(T2[t][i]) /\ pte_to_pa(T2[t][i]) = page
    <3>1. make_pte(page, {"V"}).flags = {"V"} /\ pte_to_pa(make_pte(page, {"V"})) = page
      <4> HIDE DEF page
      <4> QED BY <2>2, FramesArePages, MadeEntry DEF Flag
    <3> HIDE DEF T2, page
    <3> QED BY <2>5, <3>1 DEF pte_valid
  <2>7. SameSpace(T2, T, root)
    <3> SUFFICES ASSUME NEW a \in Nat PROVE Leaf(T2, root, a) = Leaf(T, root, a)
      BY DEF SameSpace
    <3>1. ~pte_valid(T[t][i])
      BY <1>7
    <3>2. t \in Top(root) \cup Under(T, Top(root))
      BY <2>3
    <3> HIDE DEF page, T, A, t, i
    <3> QED BY <1>1, <1>2, <2>2, <2>3, <3>1, <3>2, AttachSame
  <2>8. v.ok /\ v.table = page /\ v.tables = T2
    OBVIOUS
  <2> HIDE DEF T2, v, page
  <2>9. CASE n = 2
    <3>1. t = root
      BY <1>7, <2>9 DEF OnPath
    <3>2. pte_valid(Entry2(T2, root, va)) /\ Table1(T2, root, va) = page
      BY <2>6, <2>9, <3>1 DEF Entry2, Table1
    <3> QED BY <2>1, <2>3, <2>7, <2>8, <2>9, <3>2 DEF OnPath
  <2>10. CASE n = 1
    <3>1. pte_valid(Entry2(T, root, va)) /\ t = Table1(T, root, va)
      BY <1>7, <2>10 DEF OnPath
    <3>2. T2[root] = T[root]
      BY <2>3, <2>4, <2>5, <2>10
    <3>3. Entry2(T2, root, va) = Entry2(T, root, va) /\ Table1(T2, root, va) = t
      BY <3>1, <3>2 DEF Entry2, Table1
    <3>4. Entry1(T2, root, va) = T2[t][i]
      BY <2>10, <3>3 DEF Entry1
    <3>5. Upper(T2, root, va) /\ Table0(T2, root, va) = page
      BY <2>3, <2>6, <3>1, <3>3, <3>4 DEF Upper, Table0
    <3> QED BY <2>1, <2>3, <2>7, <2>8, <2>10, <3>5 DEF OnPath
  <2> QED BY <1>3, <2>9, <2>10
<1> QED BY <1>5, <1>6, <1>7

LeafEntry(pa, flags) == make_pte(pa, flags \cup {"V"})

(* map_page maps one page that had no translation, or changes none. *)
LEMMA MapPageMeans ==
  ASSUME NEW root \in PageAddr, NEW va \in PageAddr, NEW pa \in PageAddr,
         NEW flags \in {Ram, Device},
         free \subseteq pool, Tree(mem, free, pool, root), NEW a \in Nat
  PROVE  LET m == map_page(root, va, pa, flags)
         IN /\ (m.ok /\ SameSlot(a, va)) =>
                 /\ Leaf(mem, root, a) = ZeroPte
                 /\ Leaf(m.tables, root, a) = LeafEntry(pa, flags)
            /\ (~m.ok \/ ~SameSlot(a, va)) => Leaf(m.tables, root, a) = Leaf(mem, root, a)
<1> DEFINE start == [ok |-> root # nullptr /\ is_page_aligned(va) /\ is_page_aligned(pa),
                     tables |-> mem, avail |-> free, table |-> root]
           w1 == Descend(start, va, 2)
           w  == Descend(w1, va, 1)
           i  == vpn_index(va, 0)
           e  == make_pte(pa, flags \cup {"V"})
           m  == map_page(root, va, pa, flags)
<1>1. va \in Nat /\ flags \in SUBSET Flag /\ flags \cap {"R", "W", "X"} # {}
  BY PageAddrIs DEF Ram, Device, Flag
<1>2. Walked(start, pool, root, 2) /\ OnPath(start, root, va, 2) /\ start.tables = mem
  <2>1. mem \in Contents
    BY DEF Tree, Shape
  <2>2. start \in WalkRecord(pool)
    BY <2>1 DEF WalkRecord
  <2>3. root # nullptr => root \in Stratum(mem, root, 2)
    BY DEF Stratum, Top
  <2>4. OnPath(start, root, va, 2)
    <3>1. (start.ok => root # nullptr) /\ start.table = root
      OBVIOUS
    <3>2. 2 # 1 /\ 2 # 0
      OBVIOUS
    <3> HIDE DEF start
    <3> QED BY <3>1, <3>2, Zenon DEF OnPath
  <2> QED BY <2>2, <2>3, <2>4 DEF Walked
<1>3. m = IF ~w.ok \/ occupied(w.tables[w.table][i])
          THEN [w EXCEPT !.ok = FALSE]
          ELSE [w EXCEPT !.tables[w.table][i] = e]
  BY DEF map_page
<1> HIDE DEF start
<1>4. /\ Walked(w1, pool, root, 1) /\ OnPath(w1, root, va, 1)
      /\ SameSpace(w1.tables, mem, root)
  <2>1. /\ Walked(w1, pool, root, 2 - 1) /\ OnPath(w1, root, va, 2 - 1)
        /\ SameSpace(w1.tables, start.tables, root)
    BY <1>1, <1>2, DescendKeeps, DescendFollows
  <2> QED BY <1>2, <2>1
<1> HIDE DEF w1
<1>5. /\ Walked(w, pool, root, 0) /\ OnPath(w, root, va, 0)
      /\ SameSpace(w.tables, w1.tables, root)
  <2>1. /\ Walked(w, pool, root, 1 - 1) /\ OnPath(w, root, va, 1 - 1)
        /\ SameSpace(w.tables, w1.tables, root)
    BY <1>1, <1>4, DescendKeeps, DescendFollows
  <2> QED BY <2>1
<1> HIDE DEF w, m, i, e
<1>6. w \in WalkRecord(pool) /\ Tree(w.tables, w.avail, pool, root)
  BY <1>5 DEF Walked
<1>7. Leaf(w.tables, root, a) = Leaf(mem, root, a)
  BY <1>4, <1>5 DEF SameSpace
<1>8. CASE ~w.ok \/ occupied(w.tables[w.table][i])
  <2>1. m = [w EXCEPT !.ok = FALSE]
    BY <1>3, <1>8
  <2>2. m.tables = w.tables /\ m.ok = FALSE
    BY <1>6, <2>1 DEF WalkRecord
  <2> QED BY <1>7, <2>2 DEF m
<1>9. CASE w.ok /\ ~occupied(w.tables[w.table][i])
  <2> DEFINE T  == w.tables
             T2 == [T EXCEPT ![w.table][i] = e]
  <2>1. m = [w EXCEPT !.tables = T2]
    BY <1>3, <1>9
  <2>2. Upper(T, root, va) /\ w.table = Table0(T, root, va)
    BY <1>5, <1>9 DEF OnPath
  <2>3. /\ e \in Pte /\ pte_to_pa(e) = pa /\ e.flags = flags \cup {"V"}
    BY <1>1, MadeEntry DEF Flag, e
  <2>4. Mapped(e)
    BY <1>1, <2>3 DEF Mapped, pte_valid, pte_leaf
  <2>5. ~Mapped(Entry0(T, root, va))
    BY <1>9, <2>2 DEF occupied, Mapped, Entry0, i
  <2>6. /\ SameSlot(a, va) =>
             /\ Upper(T, root, a) /\ Entry0(T, root, a) = Entry0(T, root, va)
             /\ Upper(T2, root, a) /\ Entry0(T2, root, a) = e
        /\ ~SameSlot(a, va) => Leaf(T2, root, a) = Leaf(T, root, a)
    <3> HIDE DEF T
    <3>1. Tree(T, w.avail, pool, root)
      BY <1>6 DEF T
    <3> DEFINE U == [T EXCEPT ![Table0(T, root, va)][vpn_index(va, 0)] = e]
    <3>2. T2 = U
      BY <2>2 DEF i
    <3>3. va \in Nat /\ e \in Pte /\ Upper(T, root, va)
      BY <1>1, <2>2, <2>3
    <3>4. /\ SameSlot(a, va) =>
               /\ Upper(T, root, a) /\ Entry0(T, root, a) = Entry0(T, root, va)
               /\ Upper(U, root, a) /\ Entry0(U, root, a) = e
          /\ ~SameSlot(a, va) => Leaf(U, root, a) = Leaf(T, root, a)
      BY <3>1, <3>3, WriteMeans
    <3> HIDE DEF U, T2
    <3> QED BY <3>2, <3>4
  <2>7. m.tables = T2 /\ m.ok
    BY <1>6, <1>9, <2>1 DEF WalkRecord
  <2> HIDE DEF T2, T
  <2>8. SameSlot(a, va) => Leaf(T, root, a) = ZeroPte /\ Leaf(T2, root, a) = e
    BY <2>3, <2>4, <2>5, <2>6 DEF Leaf
  <2> QED BY <1>7, <2>6, <2>7, <2>8 DEF m, T, e, LeafEntry
<1> QED BY <1>8, <1>9

-----------------------------------------------------------------------------
(* Ranges of virtual addresses *)

LEMMA VSizeIs ==
  \E C \in Nat : /\ VSize = kPageSize * C /\ C < PageCount
                 /\ VSize \in Nat /\ VSize < AddrSpace
<1> DEFINE C == Fanout * Fanout * Fanout
<1>1. kPageSize \in Nat \ {0} /\ Fanout \in Nat \ {0}
  BY PageAssumption, TableAssumption
<1>2. Fanout * Fanout \in Nat
  BY <1>1
<1>3. C \in Nat
  BY <1>1, <1>2
<1>4. VSize = C * kPageSize
  BY DEF VSize
<1> HIDE DEF C
<1>5. VSize = kPageSize * C /\ kPageSize * C \in Nat
  BY <1>1, <1>3, <1>4
<1>6. VSize < AddrSpace
  BY CallAssumption
<1>7. C < PageCount
  <2>1. kPageSize * C < kPageSize * PageCount
    BY <1>5, <1>6, PageCountIs
  <2> QED BY <1>1, <1>3, <2>1, PageCountIs, Multiples
<1> QED BY <1>3, <1>5, <1>6, <1>7

(* The bytes of a page are the addresses with its indices. *)
LEMMA SlotRange ==
  ASSUME NEW va \in PageAddr, va < VSize
  PROVE  /\ va \in VAddr /\ va + kPageSize <= VSize
         /\ \A a \in VAddr : SameSlot(a, va) <=> a \in va..(va + kPageSize - 1)
         /\ \A a \in va..(va + kPageSize - 1) : a \in VAddr /\ page_offset(a) = a - va
<1> DEFINE P == kPageSize
           q == va \div P
<1>1. PICK C \in Nat : VSize = P * C /\ VSize \in Nat
  BY VSizeIs
<1>2. P \in Nat \ {0} /\ va \in Nat /\ q \in Nat /\ va = P * q
  BY PageCountIs, PageAddrIs
<1>3. Vpn(va) = q /\ VAddr = 0..(VSize - 1)
  BY DEF Vpn, VAddr
<1> HIDE DEF P, q
<1>4. va \in VAddr /\ va + P <= VSize
  <2>1. q < C
    BY <1>1, <1>2, Multiples
  <2>2. P * q + P <= P * C
    BY <1>2, <2>1, Multiples
  <2> QED BY <1>1, <1>2, <1>3, <2>2
<1>5. ASSUME NEW a \in VAddr PROVE SameSlot(a, va) <=> a \in va..(va + P - 1)
  <2>1. a \in Nat
    BY <1>1, <1>3
  <2>2. SameSlot(a, va) <=> a \div P = q
    BY <1>3, <1>4, SlotIsPage DEF Vpn, P
  <2>3. a \div P \in Nat /\ a % P \in 0..(P - 1) /\ a = P * (a \div P) + (a % P)
    BY <1>2, <2>1, DivMod
  <2>4. ASSUME a \div P = q PROVE a \in va..(va + P - 1)
    BY <1>2, <2>1, <2>3, <2>4
  <2>5. ASSUME a \in va..(va + P - 1) PROVE a \div P = q
    <3>1. a - va \in 0..(P - 1) /\ P * q + (a - va) = a
      BY <1>2, <2>1, <2>5
    <3> QED BY <1>2, <3>1, DivModUnique
  <2> QED BY <2>2, <2>4, <2>5
<1>6. ASSUME NEW a \in va..(va + P - 1) PROVE a \in VAddr /\ page_offset(a) = a - va
  <2>1. a - va \in 0..(P - 1) /\ P * q + (a - va) = a
    BY <1>2
  <2>2. (P * q + (a - va)) % P = a - va
    BY <1>2, <2>1, DivModUnique
  <2> QED BY <1>1, <1>2, <1>3, <1>4, <2>1, <2>2 DEF page_offset, P
<1> QED BY <1>4, <1>5, <1>6 DEF P

(* A range in the 39 bits ends at the first page boundary behind it. *)
LEMMA RangeEnd ==
  ASSUME NEW va \in PageAddr, NEW size \in Nat \ {0}, va + size <= VSize
  PROVE  /\ range_end(va, size) \in PageAddr /\ range_end(va, size) <= VSize
         /\ va + size <= range_end(va, size)
         /\ range_end(va, size) < va + size + kPageSize
<1> DEFINE P == kPageSize
           x == va + size
           y == x + (P - 1)
           k == y \div P
<1>1. PICK C \in Nat : VSize = P * C /\ C < PageCount /\ VSize \in Nat /\ VSize < AddrSpace
  BY VSizeIs
<1>2. /\ P \in Nat \ {0} /\ va \in Nat /\ AddrSpace \in Nat /\ PageCount \in Nat
      /\ AddrSpace = P * PageCount
  BY PageCountIs, PageAddrIs
<1> HIDE DEF P
<1>3. x \in Nat /\ y \in Nat /\ x <= VSize
  BY <1>2
<1>4. P * C + P <= P * PageCount
  BY <1>1, <1>2, Multiples
<1>5. y < AddrSpace /\ x \in Addr /\ y \in Addr
  BY <1>1, <1>2, <1>3, <1>4 DEF Addr
<1>6. plus(va, size) = x /\ plus(x, P - 1) = y
  BY <1>2, <1>3, <1>5, PlusIs
<1>7. range_end(va, size) = y - (y % P)
  BY <1>6 DEF range_end, align_up, align_down, P
<1>8. range_end(va, size) \in PageAddr
  BY <1>5, <1>7, AlignIs DEF align_down, P
<1> HIDE DEF x
<1>9. k \in Nat /\ y % P \in 0..(P - 1) /\ P * k \in Nat /\ y = P * k + (y % P)
  BY <1>2, <1>3, DivMod
<1> HIDE DEF k
<1>10. range_end(va, size) = P * k
  BY <1>3, <1>7, <1>9
<1>11. x <= P * k /\ P * k < x + P
  <2> HIDE DEF y
  <2>1. y = x + (P - 1)
    BY DEF y
  <2> QED BY <1>2, <1>3, <1>9, <2>1
<1>12. P * k <= VSize
  <2>1. P * (C + 1) = P * C + P
    BY <1>1, <1>2
  <2>2. P * k < P * (C + 1)
    BY <1>1, <1>2, <1>3, <1>9, <1>11, <2>1
  <2>3. k < C + 1
    <3> DEFINE c == C + 1
    <3>1. c \in Nat /\ P * k < P * c
      BY <1>1, <2>2
    <3> HIDE DEF c
    <3>2. k < c
      BY <1>2, <1>9, <3>1, Multiples
    <3> QED BY <3>2 DEF c
  <2>4. k <= C
    BY <1>1, <1>9, <2>3
  <2> QED BY <1>1, <1>2, <1>9, <2>4, Multiples
<1> QED BY <1>8, <1>10, <1>11, <1>12 DEF x, P

LEMMA NextInRange ==
  ASSUME NEW a \in PageAddr, NEW e \in PageAddr, a < e
  PROVE  a + kPageSize <= e /\ plus(a, kPageSize) = a + kPageSize
<1> DEFINE i == a \div kPageSize
           j == e \div kPageSize
<1>1. kPageSize \in Nat \ {0} /\ AddrSpace \in Nat
  BY PageCountIs
<1>2. /\ a \in Nat /\ i \in Nat /\ a = kPageSize * i
      /\ e \in Nat /\ j \in Nat /\ e = kPageSize * j /\ e \in Addr
  BY PageAddrIs
<1> HIDE DEF i, j
<1>3. i < j
  BY <1>1, <1>2, Multiples
<1>4. a + kPageSize <= e
  BY <1>1, <1>2, <1>3, Multiples
<1>5. a + kPageSize \in Addr
  BY <1>1, <1>2, <1>4 DEF Addr
<1> QED BY <1>1, <1>2, <1>4, <1>5, PlusIs

-----------------------------------------------------------------------------
(* The translation, call by call.  A call is good that asks for a range of *)
(* whole pages; the bytes of it up to n are mapped as it asked.            *)

GoodCall(c) ==
  /\ c \in Call /\ c.va \in PageAddr /\ c.pa \in PageAddr /\ c.pa # nullptr
  /\ c.va + c.size <= VSize /\ c.pa + c.size <= AddrSpace
Honours(T, root, c, n) ==
  \A x \in c.va..(n - 1) : Phys(T, root, x) = c.pa + (x - c.va)

(* Where the loop of map_range is. *)
Midway(T, root, l) ==
  /\ GoodCall(l.call)
  /\ l.call.va <= l.cur_va /\ l.cur_va < l.end /\ l.end <= VSize
  /\ l.call.va + l.call.size <= l.end /\ l.end < l.call.va + l.call.size + kPageSize
  /\ l.cur_pa = l.call.pa + (l.cur_va - l.call.va)
  /\ Honours(T, root, l.call, l.cur_va)

(* No entry maps page 0. *)
Solid(T, root) ==
  \A a \in Nat : Mapped(Leaf(T, root, a)) =>
    pte_to_pa(Leaf(T, root, a)) \in PageAddr \ {nullptr}

GoodRegion == {r \in Region : r.va # nullptr /\ r.va + r.size <= VSize}

SInv ==
  /\ TInv
  /\ todo \in Seq(GoodRegion) /\ (phase = "root" => granted = {})
  /\ Solid(mem, g_kernel_page_table)
  /\ \A l \in loop : Midway(mem, g_kernel_page_table, l)
  /\ \A c \in granted : /\ GoodCall(c)
                        /\ Honours(mem, g_kernel_page_table, c, c.va + c.size)

LEMMA GoodCallIs ==
  ASSUME NEW c, GoodCall(c)
  PROVE  /\ c.va \in Nat /\ c.pa \in Nat /\ c.size \in Nat /\ c.pa # 0
         /\ c.va + c.size <= VSize /\ c.pa + c.size <= AddrSpace
         /\ c.va \in PageAddr /\ c.pa \in PageAddr /\ c \in Call
<1>1. c.size \in Addr
  BY DEF GoodCall, Call
<1>2. c.size \in Nat
  BY <1>1, AlignIs
<1> QED BY <1>2, PageAddrIs DEF GoodCall, nullptr

(* What is mapped stays, so what a call was promised stays. *)
Grows(T, U, root) ==
  \A a \in Nat : Mapped(Leaf(T, root, a)) => Leaf(U, root, a) = Leaf(T, root, a)

LEMMA HonoursStays ==
  ASSUME NEW T, NEW U, NEW root, Grows(T, U, root), NEW c, GoodCall(c),
         NEW n \in Nat, Honours(T, root, c, n)
  PROVE  Honours(U, root, c, n)
<1> SUFFICES ASSUME NEW x \in c.va..(n - 1) PROVE Phys(U, root, x) = c.pa + (x - c.va)
  BY DEF Honours
<1>1. c.va \in Nat /\ c.pa \in Nat /\ c.pa # 0
  BY GoodCallIs
<1>2. x \in Nat /\ c.pa + (x - c.va) # 0
  BY <1>1
<1>3. Phys(T, root, x) = c.pa + (x - c.va)
  BY DEF Honours
<1>4. Mapped(Leaf(T, root, x))
  BY <1>2, <1>3 DEF Phys
<1>5. Leaf(U, root, x) = Leaf(T, root, x)
  BY <1>2, <1>4 DEF Grows
<1> QED BY <1>3, <1>5 DEF Phys

LEMMA NotMapped == ~Mapped(ZeroPte)
BY EntryIs DEF Mapped

LEMMA SpaceInit == Init => SInv
<1> SUFFICES ASSUME Init PROVE SInv
  OBVIOUS
<1>1. TInv
  BY InitHolds
<1>2. todo \in Seq(GoodRegion) /\ loop = {} /\ granted = {} /\ g_kernel_page_table = nullptr
  BY DEF Init
<1>3. \A a \in Nat : Leaf(mem, nullptr, a) = ZeroPte
  BY DEF Leaf, Upper
<1>4. Solid(mem, nullptr)
  BY <1>3, NotMapped DEF Solid
<1> QED BY <1>1, <1>2, <1>4 DEF SInv

(* With the root comes an empty table. *)
LEMMA EmptyRoot ==
  ASSUME TInv, AllocRoot, NEW a \in Nat
  PROVE  /\ Leaf(mem, g_kernel_page_table, a) = ZeroPte
         /\ Leaf(mem', g_kernel_page_table', a) = ZeroPte
<1>1. g_kernel_page_table = nullptr /\ Tree(mem, free, pool, nullptr)
  BY DEF TInv, Boot, AllocRoot
<1>2. Leaf(mem, g_kernel_page_table, a) = ZeroPte
  BY <1>1 DEF Leaf, Upper
<1>3. CASE free = {}
  BY <1>1, <1>2, <1>3 DEF AllocRoot
<1>4. CASE free # {}
  <2> DEFINE page == Min(free)
             T2   == zero_page(mem, page)
             i2   == vpn_index(a, 2)
  <2>1. mem \in Contents /\ free \subseteq Frames
    BY <1>1 DEF Tree, Shape
  <2>2. page \in Frames
    <3>1. free \in SUBSET Nat
      BY <2>1, FramesArePages
    <3> QED BY <1>4, <2>1, <3>1, Least
  <2>3. mem' = T2 /\ g_kernel_page_table' = page
    BY <1>4 DEF AllocRoot, alloc_page_table
  <2>4. i2 \in Index
    BY IndexOf
  <2> HIDE DEF page, i2
  <2>5. T2[page][i2] = ZeroPte
    BY <2>1, <2>2, <2>4 DEF zero_page, Contents
  <2> HIDE DEF T2
  <2>6. ~Upper(T2, page, a)
    BY <2>5, EntryIs DEF Upper, Entry2, i2
  <2>7. Leaf(T2, page, a) = ZeroPte
    BY <2>6 DEF Leaf
  <2> QED BY <1>2, <2>3, <2>7
<1> QED BY <1>3, <1>4

LEMMA SpaceAllocRoot ==
  ASSUME SInv, AllocRoot
  PROVE  SInv'
<1>1. TInv /\ TInv'
  BY AllocRootKeeps DEF SInv
<1>2. loop = {} /\ loop' = loop /\ granted' = granted /\ g_kernel_page_table = nullptr
  BY <1>1 DEF AllocRoot, TInv, Boot
<1>3. granted = {} /\ phase' = "regions"
  BY DEF SInv, AllocRoot
<1>4. todo' \in Seq(GoodRegion)
  <2>1. todo' = todo \/ todo' = Regions
    BY DEF AllocRoot
  <2>2. Regions \in Seq(GoodRegion)
    <3>1. Regions \in Seq(Region) /\ Len(Regions) = 3
      BY RegionsAre DEF Regions
    <3>2. ASSUME NEW s \in Seq(Region), Len(s) = 3,
                 \A n \in 1..3 : s[n].va # nullptr /\ s[n].va + s[n].size <= VSize
          PROVE  s \in Seq(GoodRegion)
      <4>1. \A n \in 1..Len(s) : s[n] \in Region
        OBVIOUS
      <4>2. \A n \in 1..Len(s) : s[n] \in GoodRegion
        BY <3>2, <4>1 DEF GoodRegion
      <4>3. s \in [1..Len(s) -> GoodRegion] /\ Len(s) \in Nat
        BY <4>2
      <4> QED BY <4>3
    <3> QED BY <3>1, <3>2, CallAssumption
  <2> QED BY <2>1, <2>2 DEF SInv
<1>5. Solid(mem', g_kernel_page_table')
  BY <1>1, EmptyRoot, NotMapped DEF Solid
<1> QED BY <1>1, <1>2, <1>3, <1>4, <1>5 DEF SInv

(* A call that enters the loop, or returns true without it, is a good one. *)
LEMMA CallsAreGood ==
  ASSUME SInv, NEW va \in Addr, NEW pa \in Addr, NEW size \in Addr,
         NEW flags \in {Ram, Device}, va + size <= VSize, pa # nullptr,
         pa + size <= AddrSpace, map_range(va, pa, size, flags)
  PROVE  /\ \A l \in loop' : Midway(mem, g_kernel_page_table, l)
         /\ granted' = granted
<1> DEFINE call == [va |-> va, pa |-> pa, size |-> size]
           end  == range_end(va, size)
           l    == [call |-> call, cur_va |-> va, cur_pa |-> pa, flags |-> flags,
                    end |-> end]
<1>1. va \in Nat /\ pa \in Nat /\ size \in Nat
  BY AlignIs
<1>2. ASSUME size # 0, aligned(va, pa)
      PROVE  /\ va \in PageAddr /\ pa \in PageAddr
             /\ end \in PageAddr /\ end <= VSize
             /\ va + size <= end /\ end < va + size + kPageSize /\ va < end
  <2>1. va \in PageAddr /\ pa \in PageAddr
    BY <1>2 DEF aligned, PageAddr
  <2>2. size \in Nat \ {0}
    BY <1>1, <1>2
  <2>3. /\ end \in PageAddr /\ end <= VSize
        /\ va + size <= end /\ end < va + size + kPageSize
    BY <2>1, <2>2, RangeEnd
  <2>4. end \in Nat
    BY <2>3, PageAddrIs
  <2> HIDE DEF end
  <2> QED BY <1>1, <2>1, <2>2, <2>3, <2>4
<1>3. granted' = granted
  BY <1>2 DEF map_range
<1>4. loop' \subseteq {l} /\ (loop' # {} => size # 0 /\ aligned(va, pa))
  BY DEF map_range
<1>5. ASSUME size # 0, aligned(va, pa) PROVE Midway(mem, g_kernel_page_table, l)
  <2>1. /\ l.call = call /\ l.cur_va = va /\ l.cur_pa = pa /\ l.end = end
        /\ call.va = va /\ call.pa = pa /\ call.size = size /\ call \in Call
    BY DEF Call
  <2> HIDE DEF l, call, end
  <2>2. GoodCall(call)
    BY <1>2, <1>5, <2>1 DEF GoodCall
  <2>3. Honours(mem, g_kernel_page_table, call, va)
    BY <1>1, <2>1 DEF Honours
  <2>4. pa = pa + (va - va) /\ va <= va
    BY <1>1
  <2> QED BY <1>2, <1>5, <2>1, <2>2, <2>3, <2>4 DEF Midway
<1> HIDE DEF l
<1> QED BY <1>3, <1>4, <1>5

LEMMA SpaceMapRegion ==
  ASSUME SInv, MapRegion
  PROVE  SInv'
<1> DEFINE r == Head(todo)
<1>1. TInv /\ TInv'
  BY MapRegionKeeps DEF SInv
<1>2. r \in GoodRegion /\ todo' \in Seq(GoodRegion)
  BY DEF SInv, MapRegion
<1>3. /\ map_range(r.va, r.va, r.size, r.flags)
      /\ UNCHANGED <<mem, free, g_kernel_page_table, satp, phase, pool>>
  BY DEF MapRegion
<1> HIDE DEF r
<1>4. /\ r.va \in Addr /\ r.size \in Addr /\ r.flags \in {Ram, Device}
      /\ r.va # nullptr /\ r.va + r.size <= VSize
  BY <1>2 DEF GoodRegion, Region
<1>5. r.va + r.size <= AddrSpace
  <2>1. r.va \in Nat /\ r.size \in Nat
    BY <1>4, AlignIs
  <2>2. VSize \in Nat /\ AddrSpace \in Nat /\ VSize < AddrSpace
    BY VSizeIs, PageCountIs
  <2> QED BY <1>4, <2>1, <2>2
<1>6. /\ \A l \in loop' : Midway(mem, g_kernel_page_table, l)
      /\ granted' = granted
  BY <1>3, <1>4, <1>5, CallsAreGood
<1> QED BY <1>1, <1>2, <1>3, <1>6 DEF SInv

LEMMA SpaceCallMapRange ==
  ASSUME SInv, NEW va \in CallVAs, NEW pa \in CallPAs, NEW size \in CallSizes,
         CallMapRange(va, pa, size)
  PROVE  SInv'
<1>1. TInv /\ TInv'
  BY CallMapRangeKeeps DEF SInv
<1>2. /\ va \in Addr /\ pa \in Addr /\ size \in Addr
      /\ va + size <= VSize /\ pa # nullptr /\ pa + size <= AddrSpace
  BY TableAssumption, CallAssumption
<1>3. /\ map_range(va, pa, size, Ram)
      /\ UNCHANGED <<mem, free, g_kernel_page_table, satp, phase, todo, pool>>
  BY DEF CallMapRange
<1>4. /\ \A l \in loop' : Midway(mem, g_kernel_page_table, l)
      /\ granted' = granted
  BY <1>2, <1>3, CallsAreGood
<1> QED BY <1>1, <1>3, <1>4 DEF SInv

LEMMA SpaceEnable ==
  ASSUME SInv, enable_sv39
  PROVE  SInv'
<1>1. TInv'
  BY EnableKeeps DEF SInv
<1>2. /\ UNCHANGED <<mem, free, g_kernel_page_table, todo, loop, granted, pool>>
      /\ phase' = "paging"
  BY DEF enable_sv39
<1> QED BY <1>1, <1>2 DEF SInv

LEMMA SpaceStutter ==
  ASSUME SInv, UNCHANGED vars
  PROVE  SInv'
<1>1. TInv'
  BY StutterKeeps DEF SInv
<1> QED BY <1>1 DEF SInv, vars

(* A turn of the loop either maps the page it stands on, or nothing. *)
LEMMA TurnMeans ==
  ASSUME SInv, NEW l \in loop, Turn(l), g_kernel_page_table' = g_kernel_page_table
  PROVE  LET root == g_kernel_page_table
             ok   == map_page(root, l.cur_va, l.cur_pa, l.flags).ok
         IN /\ l.cur_va \in PageAddr /\ l.cur_va < VSize
            /\ l.cur_pa \in PageAddr /\ l.cur_pa # nullptr
            /\ \A a \in Nat : IF ok /\ SameSlot(a, l.cur_va)
                 THEN /\ Leaf(mem, root, a) = ZeroPte /\ Mapped(Leaf(mem', root, a))
                      /\ pte_to_pa(Leaf(mem', root, a)) = l.cur_pa
                 ELSE Leaf(mem', root, a) = Leaf(mem, root, a)
<1> DEFINE root == g_kernel_page_table
           m    == map_page(root, l.cur_va, l.cur_pa, l.flags)
           e    == LeafEntry(l.cur_pa, l.flags)
<1>1. TypeOK /\ Tree(mem, free, pool, root) /\ Midway(mem, root, l)
  BY DEF SInv, TInv
<1>2. /\ l.cur_va \in PageAddr /\ l.cur_pa \in PageAddr /\ l.end \in PageAddr
      /\ l.flags \in {Ram, Device}
  BY <1>1 DEF TypeOK
<1>3. root \in PageAddr /\ free \subseteq pool
  <2>1. root \in pool \cup {nullptr} /\ free \subseteq pool /\ pool \subseteq Frames
    BY <1>1 DEF TypeOK, Frames
  <2> QED BY <2>1, FramesArePages, PageAddrIs
<1>4. mem' = m.tables
  BY DEF Turn
<1>5. l.cur_va < VSize
  <2>1. l.cur_va \in Nat /\ l.end \in Nat /\ VSize \in Nat
    BY <1>2, PageAddrIs, VSizeIs
  <2> QED BY <1>1, <2>1 DEF Midway
<1>6. l.cur_pa # nullptr
  <2>1. l.cur_va \in Nat /\ l.call.va \in Nat /\ l.call.pa \in Nat /\ l.call.pa # 0
    BY <1>1, <1>2, PageAddrIs, GoodCallIs DEF Midway
  <2> QED BY <1>1, <2>1 DEF Midway, nullptr
<1>7. ASSUME NEW a \in Nat
      PROVE  /\ (m.ok /\ SameSlot(a, l.cur_va)) =>
                  Leaf(mem, root, a) = ZeroPte /\ Leaf(m.tables, root, a) = e
             /\ (~m.ok \/ ~SameSlot(a, l.cur_va)) =>
                  Leaf(m.tables, root, a) = Leaf(mem, root, a)
  BY <1>1, <1>2, <1>3, MapPageMeans
<1>8. Mapped(e) /\ pte_to_pa(e) = l.cur_pa
  <2>1. l.flags \in SUBSET Flag /\ l.flags \cap {"R", "W", "X"} # {}
    BY <1>2 DEF Ram, Device, Flag
  <2>2. pte_to_pa(e) = l.cur_pa /\ e.flags = l.flags \cup {"V"}
    BY <1>2, <2>1, MadeEntry DEF Flag, LeafEntry
  <2> HIDE DEF e
  <2> QED BY <2>1, <2>2 DEF Mapped, pte_valid, pte_leaf
<1> HIDE DEF e
<1>9. ASSUME NEW a \in Nat
      PROVE  IF m.ok /\ SameSlot(a, l.cur_va)
             THEN /\ Leaf(mem, root, a) = ZeroPte /\ Mapped(Leaf(mem', root, a))
                  /\ pte_to_pa(Leaf(mem', root, a)) = l.cur_pa
             ELSE Leaf(mem', root, a) = Leaf(mem, root, a)
  <2> HIDE DEF m, root
  <2>1. CASE m.ok /\ SameSlot(a, l.cur_va)
    BY <1>4, <1>7, <1>8, <2>1
  <2>2. CASE ~(m.ok /\ SameSlot(a, l.cur_va))
    BY <1>4, <1>7, <2>2
  <2> QED BY <2>1, <2>2
<1> QED BY <1>2, <1>5, <1>6, <1>9

LEMMA SpaceMapTurn ==
  ASSUME SInv, MapTurn
  PROVE  SInv'
<1> DEFINE root == g_kernel_page_table
<1>1. TInv /\ TInv'
  BY MapTurnKeeps DEF SInv
<1>2. PICK l \in loop : Turn(l)
  BY DEF MapTurn
<1>3. UNCHANGED <<g_kernel_page_table, satp, phase, todo, pool>>
  BY DEF MapTurn
<1> DEFINE m    == map_page(root, l.cur_va, l.cur_pa, l.flags)
           c    == l.call
           next == l.cur_va + kPageSize
<1>4. /\ l.cur_va \in PageAddr /\ l.cur_va < VSize
      /\ l.cur_pa \in PageAddr /\ l.cur_pa # nullptr
      /\ \A a \in Nat : IF m.ok /\ SameSlot(a, l.cur_va)
           THEN /\ Leaf(mem, root, a) = ZeroPte /\ Mapped(Leaf(mem', root, a))
                /\ pte_to_pa(Leaf(mem', root, a)) = l.cur_pa
           ELSE Leaf(mem', root, a) = Leaf(mem, root, a)
  BY <1>2, <1>3, TurnMeans
<1>5. /\ Midway(mem, root, l) /\ GoodCall(c)
      /\ l \in [call : Call, cur_va : PageAddr, cur_pa : PageAddr, end : PageAddr,
                flags : {Ram, Device}]
  BY <1>1, <1>2 DEF SInv, TInv, TypeOK, Midway
<1>6. /\ c.va \in Nat /\ c.pa \in Nat /\ c.size \in Nat
      /\ c.pa + c.size <= AddrSpace /\ AddrSpace \in Nat
      /\ l.cur_va \in Nat /\ l.cur_pa \in Nat /\ l.end \in Nat /\ l.end \in PageAddr
      /\ kPageSize \in Nat \ {0} /\ VSize \in Nat
  BY <1>4, <1>5, GoodCallIs, PageAddrIs, PageCountIs, VSizeIs
<1>7. /\ c.va <= l.cur_va /\ l.cur_va < l.end /\ l.end <= VSize
      /\ c.va + c.size <= l.end /\ l.end < c.va + c.size + kPageSize
      /\ l.cur_pa = c.pa + (l.cur_va - c.va) /\ Honours(mem, root, c, l.cur_va)
  BY <1>5 DEF Midway
<1>8. next <= l.end /\ plus(l.cur_va, kPageSize) = next
  BY <1>4, <1>6, <1>7, NextInRange
<1>9. /\ granted' = granted \cup IF m.ok /\ ~(next < l.end) THEN {c} ELSE {}
      /\ loop' = IF m.ok /\ next < l.end
                 THEN {[l EXCEPT !.cur_va = next, !.cur_pa = plus(l.cur_pa, kPageSize)]}
                 ELSE {}
  BY <1>2, <1>8 DEF Turn
<1> HIDE DEF m, root, next, c
<1>10. Grows(mem, mem', root) /\ Solid(mem', root)
  <2>1. Solid(mem, root)
    BY DEF SInv, root
  <2>2. ASSUME NEW a \in Nat
        PROVE  /\ Mapped(Leaf(mem, root, a)) => Leaf(mem', root, a) = Leaf(mem, root, a)
               /\ Mapped(Leaf(mem', root, a)) =>
                    pte_to_pa(Leaf(mem', root, a)) \in PageAddr \ {nullptr}
    <3>1. CASE m.ok /\ SameSlot(a, l.cur_va)
      BY <1>4, <3>1, NotMapped
    <3>2. CASE ~(m.ok /\ SameSlot(a, l.cur_va))
      BY <1>4, <2>1, <3>2 DEF Solid
    <3> QED BY <3>1, <3>2
  <2> QED BY <2>2 DEF Grows, Solid
(* The page just mapped is what the call asked for. *)
<1>11. ASSUME m.ok PROVE Honours(mem', root, c, next)
  <2> SUFFICES ASSUME NEW x \in c.va..(next - 1)
               PROVE  Phys(mem', root, x) = c.pa + (x - c.va)
    BY DEF Honours
  <2>1. CASE x < l.cur_va
    <3>1. Honours(mem', root, c, l.cur_va)
      BY <1>5, <1>6, <1>7, <1>10, HonoursStays
    <3>2. x \in c.va..(l.cur_va - 1)
      BY <1>6, <2>1
    <3> QED BY <3>1, <3>2 DEF Honours
  <2>2. CASE l.cur_va <= x
    <3>1. x \in l.cur_va..(l.cur_va + kPageSize - 1) /\ x \in Nat
      BY <1>6, <2>2 DEF next
    <3>2. SameSlot(x, l.cur_va) /\ page_offset(x) = x - l.cur_va
      BY <1>4, <3>1, SlotRange
    <3>3. Mapped(Leaf(mem', root, x)) /\ pte_to_pa(Leaf(mem', root, x)) = l.cur_pa
      BY <1>4, <1>11, <3>1, <3>2
    <3>4. Phys(mem', root, x) = l.cur_pa + (x - l.cur_va)
      BY <3>2, <3>3 DEF Phys
    <3> QED BY <1>6, <1>7, <3>1, <3>4
  <2> QED BY <1>6, <2>1, <2>2
<1>12. ASSUME NEW k \in loop' PROVE Midway(mem', root, k)
  <2>1. m.ok /\ next < l.end
    BY <1>9, <1>12
  <2>2. k = [l EXCEPT !.cur_va = next, !.cur_pa = plus(l.cur_pa, kPageSize)]
    BY <1>9, <1>12, <2>1
  <2>3. /\ k.call = c /\ k.cur_va = next /\ k.end = l.end
        /\ k.cur_pa = plus(l.cur_pa, kPageSize)
    BY <1>5, <2>2 DEF c
  <2>4. next \in Nat /\ next = l.cur_va + kPageSize
    BY <1>6 DEF next
  <2>5. next + kPageSize <= l.end
    <3>1. next \in PageAddr
      BY <1>4, <1>8, NextPage
    <3> QED BY <1>6, <2>1, <3>1, NextInRange
  <2>6. l.cur_pa + kPageSize = c.pa + (next - c.va)
    BY <1>6, <1>7, <2>4
  <2>7. l.cur_pa + kPageSize \in Addr
    BY <1>6, <1>7, <2>4, <2>5, <2>6 DEF Addr
  <2>8. k.cur_pa = c.pa + (next - c.va)
    BY <1>6, <2>3, <2>6, <2>7, PlusIs
  <2>9. Honours(mem', root, c, next)
    BY <1>11, <2>1
  <2>10. c.va <= next
    BY <1>6, <1>7, <2>4
  <2> QED BY <1>5, <1>7, <2>1, <2>3, <2>8, <2>9, <2>10 DEF Midway
<1>13. ASSUME NEW d \in granted'
       PROVE  GoodCall(d) /\ Honours(mem', root, d, d.va + d.size)
  <2>1. CASE d \in granted
    <3>1. GoodCall(d) /\ Honours(mem, root, d, d.va + d.size)
      BY <2>1 DEF SInv, root
    <3>2. d.va + d.size \in Nat
      BY <3>1, GoodCallIs
    <3> QED BY <1>10, <3>1, <3>2, HonoursStays
  <2>2. CASE d \notin granted
    <3>1. m.ok /\ ~(next < l.end) /\ d = c
      BY <1>9, <1>13, <2>2
    <3>2. c.va + c.size <= next /\ next \in Nat
      BY <1>6, <1>7, <3>1 DEF next
    <3>3. Honours(mem', root, c, c.va + c.size)
      BY <1>6, <1>11, <3>1, <3>2 DEF Honours
    <3> QED BY <1>5, <3>1, <3>3
  <2> QED BY <2>1, <2>2
<1>14. phase # "root"
  BY <1>1, <1>2 DEF TInv, Boot
<1> QED BY <1>1, <1>3, <1>10, <1>12, <1>13, <1>14 DEF SInv, root

(* unmap_page takes the translation of one mapped page away. *)
LEMMA UnmapMeans ==
  ASSUME SInv, NEW va \in CallVAs, CallUnmap(va)
  PROVE  LET root == g_kernel_page_table
         IN /\ va \in PageAddr
            /\ \A a \in Nat : IF SameSlot(a, va)
                 THEN /\ Mapped(Leaf(mem, root, a)) /\ Leaf(mem', root, a) = ZeroPte
                 ELSE Leaf(mem', root, a) = Leaf(mem, root, a)
<1> DEFINE root == g_kernel_page_table
           t    == LeafTable(root, va)
           i    == vpn_index(va, 0)
           T2   == [mem EXCEPT ![t][i] = ZeroPte]
<1>1. Tree(mem, free, pool, root)
  BY DEF SInv, TInv
<1>2. va \in Addr /\ va \in Nat
  <2>1. va \in Addr
    BY TableAssumption
  <2> QED BY <2>1, AlignIs
<1>3. /\ is_page_aligned(va) /\ t # nullptr /\ mem' = T2
      /\ pte_valid(mem[t][i]) /\ pte_leaf(mem[t][i])
  BY DEF CallUnmap, unmap_page
<1>4. Upper(mem, root, va) /\ t = Table0(mem, root, va)
  BY <1>3 DEF LeafTable, Upper, Entry2, Entry1, Table0, Table1
<1>5. Mapped(Entry0(mem, root, va))
  BY <1>3, <1>4 DEF Mapped, Entry0
<1>6. ASSUME NEW a \in Nat
      PROVE  /\ SameSlot(a, va) =>
                  /\ Upper(mem, root, a) /\ Entry0(mem, root, a) = Entry0(mem, root, va)
                  /\ Upper(T2, root, a) /\ Entry0(T2, root, a) = ZeroPte
             /\ ~SameSlot(a, va) => Leaf(T2, root, a) = Leaf(mem, root, a)
  <2>1. ZeroPte \in Pte
    BY EntryIs
  <2> HIDE DEF t
  <2> QED BY <1>1, <1>2, <1>4, <2>1, WriteMeans
<1> HIDE DEF T2
<1>7. ASSUME NEW a \in Nat
      PROVE  IF SameSlot(a, va)
             THEN Mapped(Leaf(mem, root, a)) /\ Leaf(mem', root, a) = ZeroPte
             ELSE Leaf(mem', root, a) = Leaf(mem, root, a)
  <2>1. CASE SameSlot(a, va)
    BY <1>3, <1>5, <1>6, <2>1, NotMapped DEF Leaf
  <2>2. CASE ~SameSlot(a, va)
    BY <1>3, <1>6, <2>2
  <2> QED BY <2>1, <2>2
<1> QED BY <1>2, <1>3, <1>7 DEF PageAddr

LEMMA SpaceUnmap ==
  ASSUME SInv, NEW va \in CallVAs, CallUnmap(va)
  PROVE  SInv'
<1> DEFINE root == g_kernel_page_table
<1>1. TInv'
  BY CallUnmapKeeps DEF SInv
<1>2. /\ UNCHANGED <<free, g_kernel_page_table, satp, phase, todo, loop, pool>>
      /\ granted' = {c \in granted : ~(c.va <= va /\ va < c.va + c.size)}
      /\ phase = "paging" /\ loop = {}
  BY DEF CallUnmap
<1>3. /\ va \in PageAddr
      /\ \A a \in Nat : IF SameSlot(a, va)
           THEN Mapped(Leaf(mem, root, a)) /\ Leaf(mem', root, a) = ZeroPte
           ELSE Leaf(mem', root, a) = Leaf(mem, root, a)
  BY UnmapMeans
<1>4. va \in VAddr /\ va < VSize /\ va \in Nat /\ VSize \in Nat /\ kPageSize \in Nat \ {0}
  <2>1. va \in VAddr /\ VSize \in Nat
    BY CallAssumption, VSizeIs
  <2> QED BY <2>1, PageCountIs DEF VAddr
<1> HIDE DEF root
<1>5. Solid(mem', root)
  <2>1. Solid(mem, root)
    BY DEF SInv, root
  <2> SUFFICES ASSUME NEW a \in Nat, Mapped(Leaf(mem', root, a))
               PROVE  pte_to_pa(Leaf(mem', root, a)) \in PageAddr \ {nullptr}
    BY DEF Solid
  <2>2. Leaf(mem', root, a) = Leaf(mem, root, a)
    BY <1>3, NotMapped
  <2> QED BY <2>1, <2>2 DEF Solid
(* A call that keeps its promise shares no page with what was unmapped. *)
<1>6. ASSUME NEW c \in granted'
      PROVE  GoodCall(c) /\ Honours(mem', root, c, c.va + c.size)
  <2>1. /\ GoodCall(c) /\ Honours(mem, root, c, c.va + c.size)
        /\ ~(c.va <= va /\ va < c.va + c.size)
    BY <1>2, <1>6 DEF SInv, root
  <2>2. /\ c.va \in Nat /\ c.size \in Nat /\ c.va + c.size <= VSize /\ c.va \in PageAddr
    BY <2>1, GoodCallIs
  <2> DEFINE n == c.va + c.size
  <2> HIDE DEF n
  <2> SUFFICES ASSUME NEW x \in c.va..(n - 1)
               PROVE  Phys(mem', root, x) = c.pa + (x - c.va)
    BY <2>1 DEF Honours, n
  <2>3. x \in Nat /\ x \in VAddr /\ c.va <= x /\ x < c.va + c.size
    BY <1>4, <2>2 DEF VAddr, n
  <2>4. x \notin va..(va + kPageSize - 1)
    <3>1. CASE c.va <= va
      BY <1>4, <2>1, <2>2, <2>3, <3>1
    <3>2. CASE va < c.va
      <4>1. va + kPageSize <= c.va
        BY <1>3, <2>2, <3>2, NextInRange
      <4> QED BY <1>4, <2>2, <2>3, <4>1
    <3> QED BY <1>4, <2>2, <3>1, <3>2
  <2>5. ~SameSlot(x, va)
    BY <1>3, <1>4, <2>3, <2>4, SlotRange
  <2>6. Leaf(mem', root, x) = Leaf(mem, root, x)
    BY <1>3, <2>3, <2>5
  <2>7. Phys(mem, root, x) = c.pa + (x - c.va)
    <3>1. Honours(mem, root, c, n)
      BY <2>1 DEF n
    <3> QED BY <3>1 DEF Honours
  <2> QED BY <2>6, <2>7 DEF Phys
<1> QED BY <1>1, <1>2, <1>5, <1>6 DEF SInv, root

LEMMA SpaceNext == SInv /\ [Next]_vars => SInv'
<1> SUFFICES ASSUME SInv, [Next]_vars PROVE SInv'
  OBVIOUS
<1>1. CASE AllocRoot
  BY <1>1, SpaceAllocRoot
<1>2. CASE MapRegion
  BY <1>2, SpaceMapRegion
<1>3. CASE MapTurn
  BY <1>3, SpaceMapTurn
<1>4. CASE enable_sv39
  BY <1>4, SpaceEnable
<1>5. CASE \E va \in CallVAs, pa \in CallPAs, size \in CallSizes :
             CallMapRange(va, pa, size)
  BY <1>5, SpaceCallMapRange
<1>6. CASE \E va \in CallVAs : CallUnmap(va)
  BY <1>6, SpaceUnmap
<1>7. CASE UNCHANGED vars
  BY <1>7, SpaceStutter
<1> QED BY <1>1, <1>2, <1>3, <1>4, <1>5, <1>6, <1>7 DEF Next

LEMMA SpaceAlways == Spec => []SInv
BY SpaceInit, SpaceNext, PTL DEF Spec

(* map_range answers true only when every byte of the range it was asked   *)
(* for translates to its own byte, the last partial page included, and     *)
(* stays so until it is unmapped, whatever calls succeed or fail           *)
(* afterwards (page_table.cpp:89-111).                                     *)
THEOREM TrueIsMapped == Spec => []TrueMeansMapped
<1>1. SInv => TrueMeansMapped
  <2> SUFFICES ASSUME SInv, NEW c \in granted, NEW b \in 0..(c.size - 1)
               PROVE  virt_to_phys(g_kernel_page_table, c.va + b) = c.pa + b
    BY DEF TrueMeansMapped
  <2> DEFINE root == g_kernel_page_table
             x    == c.va + b
             n    == c.va + c.size
  <2>1. GoodCall(c) /\ Honours(mem, root, c, n)
    BY DEF SInv
  <2>2. c.va \in Nat /\ c.pa \in Nat /\ c.size \in Nat
    BY <2>1, GoodCallIs
  <2>3. x \in c.va..(n - 1) /\ x \in Nat /\ x - c.va = b
    BY <2>2
  <2>4. Tree(mem, free, pool, root)
    BY DEF SInv, TInv
  <2> HIDE DEF x, n
  <2>5. Phys(mem, root, x) = c.pa + b
    BY <2>1, <2>3 DEF Honours
  <2>6. virt_to_phys(root, x) = Phys(mem, root, x)
    BY <2>3, <2>4, PhysIs
  <2> QED BY <2>5, <2>6 DEF x
<1> QED BY <1>1, SpaceAlways, PTL

-----------------------------------------------------------------------------
(* Refinement *)

LEMMA TranslationIs ==
  SInv => /\ Translation = [a \in VAddr |-> Phys(mem, g_kernel_page_table, a)]
          /\ VAddr \subseteq Nat
<1> SUFFICES ASSUME SInv
             PROVE  /\ Translation = [a \in VAddr |-> Phys(mem, g_kernel_page_table, a)]
                    /\ VAddr \subseteq Nat
  OBVIOUS
<1>1. VAddr \subseteq Nat
  BY VSizeIs DEF VAddr
<1>2. Tree(mem, free, pool, g_kernel_page_table)
  BY DEF SInv, TInv
<1>3. \A a \in VAddr : virt_to_phys(g_kernel_page_table, a) = Phys(mem, g_kernel_page_table, a)
  BY <1>1, <1>2, PhysIs
<1> QED BY <1>1, <1>3 DEF Translation

LEMMA TranslationNext ==
  SInv' => Translation' = [a \in VAddr |-> Phys(mem', g_kernel_page_table', a)]
<1>1. (SInv => Translation = [a \in VAddr |-> Phys(mem, g_kernel_page_table, a)])'
  <2>1. SInv => Translation = [a \in VAddr |-> Phys(mem, g_kernel_page_table, a)]
    BY TranslationIs
  <2> QED BY <2>1, PTL
<1> QED BY <1>1

(* An unmapped page reads 0, a mapped one the bytes of a page but page 0. *)
LEMMA PhysOf ==
  ASSUME NEW T, NEW root, Solid(T, root), NEW a \in Nat
  PROVE  /\ ~Mapped(Leaf(T, root, a)) => Phys(T, root, a) = 0
         /\ Mapped(Leaf(T, root, a)) =>
              /\ pte_to_pa(Leaf(T, root, a)) \in Nat \ {0}
              /\ Phys(T, root, a) = pte_to_pa(Leaf(T, root, a)) + page_offset(a)
<1>1. Mapped(Leaf(T, root, a)) => pte_to_pa(Leaf(T, root, a)) \in Nat \ {0}
  BY PageAddrIs DEF Solid, nullptr
<1> QED BY <1>1 DEF Phys

LEMMA StepSame ==
  ASSUME SInv, SInv', \A a \in Nat :
           Leaf(mem', g_kernel_page_table', a) = Leaf(mem, g_kernel_page_table, a)
  PROVE  Translation' = Translation
<1>1. \A a \in Nat : Phys(mem', g_kernel_page_table', a) = Phys(mem, g_kernel_page_table, a)
  BY DEF Phys
<1>2. Translation = [a \in VAddr |-> Phys(mem, g_kernel_page_table, a)] /\ VAddr \subseteq Nat
  BY TranslationIs
<1>3. Translation' = [a \in VAddr |-> Phys(mem', g_kernel_page_table', a)]
  BY TranslationNext
<1> QED BY <1>1, <1>2, <1>3

LEMMA StepTurn ==
  ASSUME SInv, SInv', MapTurn
  PROVE  AS!ASNext \/ Translation' = Translation
<1> DEFINE root == g_kernel_page_table
<1>1. PICK l \in loop : Turn(l)
  BY DEF MapTurn
<1>2. g_kernel_page_table' = g_kernel_page_table
  BY DEF MapTurn
<1> DEFINE ok == map_page(root, l.cur_va, l.cur_pa, l.flags).ok
           va == l.cur_va
           pa == l.cur_pa
           Tr == Translation
<1>3. /\ va \in PageAddr /\ va < VSize /\ pa \in PageAddr /\ pa # nullptr
      /\ \A a \in Nat : IF ok /\ SameSlot(a, va)
           THEN /\ Leaf(mem, root, a) = ZeroPte /\ Mapped(Leaf(mem', root, a))
                /\ pte_to_pa(Leaf(mem', root, a)) = pa
           ELSE Leaf(mem', root, a) = Leaf(mem, root, a)
  BY <1>1, <1>2, TurnMeans
<1> HIDE DEF ok, va, pa
<1>4. CASE ~ok
  BY <1>2, <1>3, <1>4, StepSame
<1>5. CASE ok
  <2>1. /\ Tr = [a \in VAddr |-> Phys(mem, root, a)] /\ VAddr \subseteq Nat
        /\ Tr' = [a \in VAddr |-> Phys(mem', root, a)]
    BY <1>2, TranslationIs, TranslationNext
  <2>2. /\ va \in VAddr
        /\ \A a \in VAddr : SameSlot(a, va) <=> a \in va..(va + kPageSize - 1)
        /\ \A a \in va..(va + kPageSize - 1) : a \in VAddr /\ page_offset(a) = a - va
    BY <1>3, SlotRange
  <2>3. va \in Nat /\ pa \in Nat /\ pa # 0 /\ is_page_aligned(va) /\ is_page_aligned(pa)
        /\ kPageSize \in Nat \ {0}
    BY <1>3, PageAddrIs, PageCountIs DEF PageAddr, nullptr
  <2> HIDE DEF root, Tr
  <2>4. ASSUME NEW a \in va..(va + kPageSize - 1)
        PROVE  a \in VAddr /\ Tr[a] = 0 /\ Tr'[a] = pa + (a - va)
    <3>1. a \in VAddr /\ page_offset(a) = a - va /\ a \in Nat
      BY <2>1, <2>2
    <3>2. SameSlot(a, va)
      BY <2>2, <3>1
    <3>3. /\ Leaf(mem, root, a) = ZeroPte /\ Mapped(Leaf(mem', root, a))
          /\ pte_to_pa(Leaf(mem', root, a)) = pa
      BY <1>3, <1>5, <3>1, <3>2
    <3>4. Phys(mem, root, a) = 0 /\ Phys(mem', root, a) = pa + (a - va)
      BY <3>1, <3>3, NotMapped DEF Phys
    <3> QED BY <2>1, <3>1, <3>4
  <2>5. ASSUME NEW a \in VAddr, a \notin va..(va + kPageSize - 1)
        PROVE  Tr'[a] = Tr[a]
    <3>1. a \in Nat /\ ~SameSlot(a, va)
      BY <2>1, <2>2, <2>5
    <3>2. Leaf(mem', root, a) = Leaf(mem, root, a)
      BY <1>3, <3>1
    <3>3. Phys(mem', root, a) = Phys(mem, root, a)
      BY <3>2 DEF Phys
    <3> QED BY <2>1, <3>3
  <2>6. Tr[va] = 0 /\ Tr'[va] = pa
    <3>1. va \in va..(va + kPageSize - 1) /\ pa + (va - va) = pa
      BY <2>3
    <3> QED BY <2>4, <3>1
  <2>7. AS!Map(va)
    BY <2>3, <2>4, <2>5, <2>6 DEF AS!Map, AS!OnlyPage, AS!PageOf, Tr,
                              is_page_aligned, AS!is_page_aligned
  <2>8. va \in {a \in VAddr : is_page_aligned(a)}
    BY <2>2, <2>3
  <2> QED BY <2>7, <2>8 DEF AS!ASNext, is_page_aligned, AS!is_page_aligned
<1> QED BY <1>4, <1>5

LEMMA StepUnmap ==
  ASSUME SInv, SInv', NEW va \in CallVAs, CallUnmap(va)
  PROVE  AS!ASNext
<1> DEFINE root == g_kernel_page_table
           Tr   == Translation
<1>1. /\ va \in PageAddr
      /\ \A a \in Nat : IF SameSlot(a, va)
           THEN Mapped(Leaf(mem, root, a)) /\ Leaf(mem', root, a) = ZeroPte
           ELSE Leaf(mem', root, a) = Leaf(mem, root, a)
  BY UnmapMeans
<1>2. g_kernel_page_table' = g_kernel_page_table /\ Solid(mem, root)
  BY DEF CallUnmap, SInv
<1>3. va < VSize
  <2>1. va \in VAddr /\ VSize \in Nat
    BY CallAssumption, VSizeIs
  <2> QED BY <2>1 DEF VAddr
<1>4. /\ Tr = [a \in VAddr |-> Phys(mem, root, a)] /\ VAddr \subseteq Nat
      /\ Tr' = [a \in VAddr |-> Phys(mem', root, a)]
  BY <1>2, TranslationIs, TranslationNext
<1>5. /\ va \in VAddr
      /\ \A a \in VAddr : SameSlot(a, va) <=> a \in va..(va + kPageSize - 1)
      /\ \A a \in va..(va + kPageSize - 1) : a \in VAddr /\ page_offset(a) = a - va
  BY <1>1, <1>3, SlotRange
<1>6. va \in Nat /\ is_page_aligned(va) /\ kPageSize \in Nat \ {0}
  BY <1>1, PageAddrIs, PageCountIs DEF PageAddr
<1> HIDE DEF root, Tr
<1>7. ASSUME NEW a \in va..(va + kPageSize - 1)
      PROVE  a \in VAddr /\ Tr[a] # 0 /\ Tr'[a] = 0
  <2>1. a \in VAddr /\ page_offset(a) \in Nat /\ a \in Nat
    BY <1>4, <1>5, <1>6
  <2>2. Mapped(Leaf(mem, root, a)) /\ Leaf(mem', root, a) = ZeroPte
    BY <1>1, <1>5, <2>1
  <2>3. Phys(mem', root, a) = 0
    BY <2>2, NotMapped DEF Phys
  <2>4. /\ pte_to_pa(Leaf(mem, root, a)) \in Nat \ {0}
        /\ Phys(mem, root, a) = pte_to_pa(Leaf(mem, root, a)) + page_offset(a)
    BY <1>2, <2>1, <2>2, PhysOf
  <2>5. Phys(mem, root, a) # 0
    BY <2>1, <2>4
  <2> QED BY <1>4, <2>1, <2>3, <2>5
<1>8. ASSUME NEW a \in VAddr, a \notin va..(va + kPageSize - 1)
      PROVE  Tr'[a] = Tr[a]
  <2>1. a \in Nat /\ ~SameSlot(a, va)
    BY <1>4, <1>5, <1>8
  <2>2. Leaf(mem', root, a) = Leaf(mem, root, a)
    BY <1>1, <2>1
  <2>3. Phys(mem', root, a) = Phys(mem, root, a)
    BY <2>2 DEF Phys
  <2> QED BY <1>4, <2>3
<1>9. Tr[va] # 0 /\ Tr'[va] = 0
  <2>1. va \in va..(va + kPageSize - 1)
    BY <1>6
  <2> QED BY <1>7, <2>1
<1>10. AS!Unmap(va)
  BY <1>7, <1>8, <1>9 DEF AS!Unmap, AS!OnlyPage, AS!PageOf, Tr
<1>11. va \in {a \in VAddr : is_page_aligned(a)}
  BY <1>5, <1>6
<1> QED BY <1>10, <1>11 DEF AS!ASNext, is_page_aligned, AS!is_page_aligned

LEMMA SpaceSimulation == SInv /\ SInv' /\ [Next]_vars => [AS!ASNext]_Translation
<1> SUFFICES ASSUME SInv, SInv', [Next]_vars PROVE AS!ASNext \/ Translation' = Translation
  OBVIOUS
<1>1. CASE AllocRoot
  <2>1. TInv
    BY DEF SInv
  <2> QED BY <1>1, <2>1, EmptyRoot, StepSame
<1>2. ASSUME mem' = mem, g_kernel_page_table' = g_kernel_page_table
      PROVE  Translation' = Translation
  BY <1>2, StepSame
<1>3. CASE MapRegion
  BY <1>2, <1>3 DEF MapRegion
<1>4. CASE MapTurn
  BY <1>4, StepTurn
<1>5. CASE enable_sv39
  BY <1>2, <1>5 DEF enable_sv39
<1>6. CASE \E va \in CallVAs, pa \in CallPAs, size \in CallSizes :
             CallMapRange(va, pa, size)
  BY <1>2, <1>6 DEF CallMapRange
<1>7. CASE \E va \in CallVAs : CallUnmap(va)
  BY <1>7, StepUnmap
<1>8. CASE UNCHANGED vars
  BY <1>2, <1>8 DEF vars
<1> QED BY <1>1, <1>3, <1>4, <1>5, <1>6, <1>7, <1>8 DEF Next

(* What virt_to_phys answers for every byte address, in every state, is a  *)
(* translation that starts empty and changes one whole page per turn of    *)
(* map_range or call of unmap_page, although tables are built out of pages *)
(* with old contents and shared between pages (page_table.cpp:39-167).     *)
THEOREM TablesImplementSpace == Spec => ImplementsAddressSpace
<1>1. Init => AS!ASInit
  <2> SUFFICES ASSUME Init PROVE Translation = [a \in VAddr |-> 0]
    BY DEF AS!ASInit
  <2>1. g_kernel_page_table = nullptr
    BY DEF Init
  <2> QED BY <2>1 DEF Translation, virt_to_phys
<1> QED BY <1>1, SpaceAlways, SpaceSimulation, PTL DEF Spec, ImplementsAddressSpace, AS!ASSpec

-----------------------------------------------------------------------------
(* The regions of the kernel.  End is where the loop of map_range stops.   *)

End(n)        == range_end(Regions[n].va, Regions[n].size)
RegionCall(n) == [va |-> Regions[n].va, pa |-> Regions[n].va, size |-> Regions[n].size]

(* align_up, where the top of the address space is far. *)
LEMMA RoundsUp ==
  ASSUME NEW a \in Nat, a <= VSize
  PROVE  align_up(a) \in PageAddr /\ a <= align_up(a) /\ align_up(a) < a + kPageSize
<1> DEFINE P == kPageSize
           y == a + (P - 1)
<1>1. PICK C \in Nat : VSize = P * C /\ C < PageCount /\ VSize \in Nat
  BY VSizeIs
<1>2. P \in Nat \ {0} /\ AddrSpace \in Nat /\ PageCount \in Nat /\ AddrSpace = P * PageCount
  BY PageCountIs
<1> HIDE DEF P
<1>3. P * C + P <= P * PageCount
  BY <1>1, <1>2, Multiples
<1>4. y \in Nat /\ y \in Addr
  BY <1>1, <1>2, <1>3 DEF Addr
<1>5. plus(a, P - 1) = y
  BY <1>2, <1>4, PlusIs
<1>6. align_up(a) = y - (y % P) /\ align_up(a) \in PageAddr
  BY <1>4, <1>5, AlignIs DEF align_up, align_down, P
<1>7. y % P \in 0..(P - 1)
  BY <1>2, <1>4, DivMod
<1> QED BY <1>2, <1>6, <1>7 DEF P

(* A page address is what it rounds down to. *)
LEMMA RoundsDown ==
  ASSUME NEW a \in Addr, is_page_aligned(a)
  PROVE  a \in PageAddr /\ a \in Nat /\ align_down(a) = a
<1>1. a \in PageAddr
  BY DEF PageAddr
<1>2. a \in Nat /\ a % kPageSize = 0
  BY <1>1, PageAddrIs DEF is_page_aligned
<1> QED BY <1>1, <1>2 DEF align_down

(* What is mapped for a region r: its pages, the last one whole. *)
Covers(r, va, size) ==
  /\ va = r.base /\ va \in PageAddr /\ size \in Nat \ {0}
  /\ r.size \in Nat \ {0} /\ r.size <= size /\ r.base + r.size <= VSize
  /\ \A e \in PageAddr : e < va + size + kPageSize => e < r.base + r.size + kPageSize

LEMMA RegionOf ==
  /\ Covers(kDram, Regions[1].va, Regions[1].size)
  /\ Covers(kUart0, Regions[2].va, Regions[2].size)
  /\ Covers(kClint, Regions[3].va, Regions[3].size)
<1>1. ASSUME NEW r \in {kDram, kUart0, kClint}
      PROVE  /\ r.base \in PageAddr /\ r.base \in Nat /\ align_down(r.base) = r.base
             /\ r.size \in Nat \ {0} /\ r.base + r.size <= VSize
             /\ r.size <= VSize
  <2>1. r.base \in Addr /\ r.size \in Addr
    BY TableAssumption
  <2>2. is_page_aligned(r.base) /\ r.size # 0 /\ r.base + r.size <= VSize
    BY KernelAssumption
  <2>3. r.base \in PageAddr /\ r.base \in Nat /\ align_down(r.base) = r.base
    BY <2>1, <2>2, RoundsDown
  <2>4. r.size \in Nat /\ VSize \in Nat
    BY <2>1, AlignIs, VSizeIs
  <2> QED BY <2>2, <2>3, <2>4
<1>2. kPageSize \in Nat \ {0}
  BY PageCountIs
<1>3. Covers(kDram, kDram.base, kDram.size)
  BY <1>1, <1>2 DEF Covers
<1>4. ASSUME NEW r \in {kDram, kUart0, kClint}
      PROVE  Covers(r, align_down(r.base), align_up(r.size))
  <2>1. /\ align_up(r.size) \in PageAddr /\ r.size <= align_up(r.size)
        /\ align_up(r.size) < r.size + kPageSize
    BY <1>1, RoundsUp
  <2>2. align_up(r.size) \in Nat
    BY <2>1, PageAddrIs
  <2>3. ASSUME NEW e \in PageAddr, e < r.base + align_up(r.size) + kPageSize
        PROVE  e < r.base + r.size + kPageSize
    <3> DEFINE s == align_up(r.size)
               z == r.base + s
    <3>1. z \in PageAddr \/ z >= AddrSpace
      <4> DEFINE i == r.base \div kPageSize
                 j == s \div kPageSize
      <4>1. r.base = kPageSize * i /\ i \in Nat /\ s = kPageSize * j /\ j \in Nat
        BY <1>1, <2>1, PageAddrIs
      <4> HIDE DEF i, j, s
      <4>2. z = kPageSize * (i + j) /\ i + j \in Nat
        BY <1>2, <4>1
      <4> DEFINE k == i + j
      <4>3. k \in Nat /\ z = kPageSize * k
        BY <4>2
      <4> HIDE DEF k, z
      <4>4. PageCount \in Nat /\ AddrSpace = kPageSize * PageCount
        BY PageCountIs
      <4>5. CASE k < PageCount
        <5>1. k \in 0..(PageCount - 1)
          BY <4>3, <4>4, <4>5
        <5> QED BY <4>3, <5>1, PageAddrIs
      <4>6. CASE PageCount <= k
        <5>1. kPageSize * PageCount <= kPageSize * k
          BY <1>2, <4>3, <4>4, <4>6, Multiples
        <5>2. kPageSize * k \in Nat /\ kPageSize * PageCount \in Nat
          BY <1>2, <4>3, <4>4, Multiples
        <5> QED BY <4>3, <4>4, <5>1, <5>2
      <4> QED BY <4>3, <4>4, <4>5, <4>6
    <3>2. e \in Nat /\ e < AddrSpace /\ AddrSpace \in Nat /\ z \in Nat /\ s \in Nat
      BY <1>1, <2>2, PageAddrIs, PageCountIs DEF Addr
    <3>3. e <= z
      <4>1. CASE z \in PageAddr
        <5>1. z < e => z + kPageSize <= e
          BY <4>1, NextInRange
        <5> HIDE DEF z
        <5>2. e < z + kPageSize
          BY <2>3 DEF z
        <5> QED BY <1>2, <3>2, <5>1, <5>2
      <4>2. CASE z >= AddrSpace
        BY <3>2, <4>2
      <4> QED BY <3>1, <4>1, <4>2
    <3> QED BY <1>1, <1>2, <2>1, <3>2, <3>3
  <2> QED BY <1>1, <2>1, <2>2, <2>3 DEF Covers
<1> QED BY <1>3, <1>4 DEF Regions, map_device_region

Kernels == <<kDram, kUart0, kClint>>

LEMMA RegionFacts ==
  ASSUME NEW n \in 1..3
  PROVE  /\ Regions[n].va \in PageAddr /\ Regions[n].va \in Nat
         /\ Regions[n].size \in Nat \ {0} /\ Regions[n].va + Regions[n].size <= VSize
         /\ End(n) \in PageAddr /\ End(n) \in Nat /\ End(n) <= VSize
         /\ Regions[n].va + Regions[n].size <= End(n)
         /\ Kernels[n].base..(Kernels[n].base + Kernels[n].size - 1)
              \subseteq Regions[n].va..(Regions[n].va + Regions[n].size - 1)
         /\ \A a \in PageAddr : Regions[n].va <= a /\ a < End(n) =>
              a \in KernelBytes /\ Kernel(a)
<1> DEFINE V == Regions[n].va
           S == Regions[n].size
           r == Kernels[n]
<1>1. n = 1 \/ n = 2 \/ n = 3
  OBVIOUS
<1>2. Covers(r, V, S) /\ r \in {kDram, kUart0, kClint}
  BY <1>1, RegionOf DEF Kernels
<1>3. V + S <= VSize
  BY CallAssumption
<1> HIDE DEF V, S, r
<1>4. /\ V = r.base /\ V \in PageAddr /\ S \in Nat \ {0} /\ r.size \in Nat \ {0}
      /\ r.size <= S /\ r.base + r.size <= VSize
  BY <1>2 DEF Covers
<1>5. V \in Nat /\ kPageSize \in Nat \ {0}
  BY <1>4, PageAddrIs, PageCountIs
<1>6. /\ End(n) \in PageAddr /\ End(n) <= VSize /\ V + S <= End(n)
      /\ End(n) < V + S + kPageSize
  BY <1>3, <1>4, RangeEnd DEF End, V, S
<1>7. End(n) \in Nat
  BY <1>6, PageAddrIs
<1> DEFINE E == End(n)
<1> HIDE DEF E
<1>8. E < r.base + r.size + kPageSize
  BY <1>2, <1>6 DEF Covers, E
<1>9. r.base..(r.base + r.size - 1) \subseteq V..(V + S - 1)
  BY <1>4, <1>5
<1>10. ASSUME NEW a \in PageAddr, V <= a, a < E
       PROVE  a \in KernelBytes /\ Kernel(a)
  <2>1. a \in Nat /\ a + kPageSize <= E
    BY <1>6, <1>10, NextInRange, PageAddrIs DEF E
  <2>2. r.base <= a /\ a < r.base + r.size
    BY <1>4, <1>5, <1>7, <1>8, <1>10, <2>1 DEF E
  <2>3. a \in r.base..(r.base + r.size - 1)
    BY <1>4, <1>5, <2>1, <2>2
  <2>4. a \in KernelBytes
    BY <1>2, <2>3 DEF KernelBytes
  <2>5. /\ r.base + r.size <= align_up(r.base + r.size) /\ align_up(r.base + r.size) \in PageAddr
    <3>1. r.base + r.size \in Nat
      BY <1>4, <1>5
    <3> QED BY <1>4, <3>1, RoundsUp
  <2>6. align_up(r.base + r.size) \in Nat
    BY <2>5, PageAddrIs
  <2>7. align_down(r.base) = r.base
    BY <1>4, RoundsDown DEF PageAddr
  <2>8. a < align_up(r.base + r.size)
    BY <1>4, <1>5, <2>1, <2>2, <2>5, <2>6
  <2> QED BY <1>2, <2>2, <2>4, <2>7, <2>8 DEF Kernel
<1> QED BY <1>3, <1>4, <1>5, <1>6, <1>7, <1>9, <1>10 DEF E, V, S, r

(* Every byte of the kernel is one of a region's. *)
LEMMA KernelBytesAre ==
  /\ \A a \in KernelBytes : \E n \in 1..3 :
       a \in Regions[n].va..(Regions[n].va + Regions[n].size - 1)
  /\ KernelBytes \subseteq VAddr /\ KernelBytes \subseteq Nat
<1>1. ASSUME NEW a \in KernelBytes
      PROVE  \E n \in 1..3 : a \in Regions[n].va..(Regions[n].va + Regions[n].size - 1)
  <2>1. PICK r \in {kDram, kUart0, kClint} : a \in r.base..(r.base + r.size - 1)
    BY DEF KernelBytes
  <2>2. PICK n \in 1..3 : r = Kernels[n]
    BY DEF Kernels
  <2> QED BY <2>1, <2>2, RegionFacts
<1>2. ASSUME NEW a \in KernelBytes PROVE a \in VAddr /\ a \in Nat
  <2>1. PICK n \in 1..3 : a \in Regions[n].va..(Regions[n].va + Regions[n].size - 1)
    BY <1>1
  <2>2. /\ Regions[n].va \in Nat /\ Regions[n].size \in Nat
        /\ Regions[n].va + Regions[n].size <= VSize /\ VSize \in Nat
    BY RegionFacts, VSizeIs
  <2> QED BY <2>1, <2>2 DEF VAddr
<1> QED BY <1>1, <1>2

(* No page is in two regions. *)
LEMMA RegionsApart ==
  ASSUME NEW m \in 1..3, NEW n \in 1..3, NEW a \in Nat,
         Regions[m].va <= a, a < End(m), Regions[n].va <= a, a < End(n)
  PROVE  m = n
<1>1. /\ Regions[m].va \in Nat /\ End(m) \in Nat /\ Regions[n].va \in Nat /\ End(n) \in Nat
  BY RegionFacts
<1>2. ASSUME NEW i \in 1..3, NEW j \in 1..3, i < j
      PROVE  End(i) <= Regions[j].va \/ End(j) <= Regions[i].va
  BY <1>2, KernelAssumption DEF End
<1>3. ~(m < n)
  BY <1>1, <1>2
<1>4. ~(n < m)
  BY <1>1, <1>2
<1> QED BY <1>3, <1>4

-----------------------------------------------------------------------------
(* Tables suffice: as long as only the kernel is mapped, each link of the  *)
(* tree belongs to a slot of the kernel's bytes.                           *)

Slot2(a) == a \div (kPageSize * Fanout * Fanout)
Slot1(a) == a \div (kPageSize * Fanout)

LEMMA SlotDivs ==
  ASSUME NEW a \in Nat
  PROVE  Slot1(a) = Vpn(a) \div Fanout /\ Slot2(a) = Slot1(a) \div Fanout
<1>1. kPageSize \in Nat \ {0} /\ Fanout \in Nat \ {0}
  BY PageAssumption, TableAssumption
<1>2. /\ kPageSize * Fanout \in Nat \ {0}
      /\ a \div (kPageSize * Fanout) = (a \div kPageSize) \div Fanout
  BY <1>1, DivDiv
<1>3. a \div ((kPageSize * Fanout) * Fanout) = (a \div (kPageSize * Fanout)) \div Fanout
  <2> DEFINE b == kPageSize * Fanout
  <2>1. b \in Nat \ {0}
    BY <1>2
  <2> HIDE DEF b
  <2>2. a \div (b * Fanout) = (a \div b) \div Fanout
    BY <1>1, <2>1, DivDiv
  <2> QED BY <2>2 DEF b
<1> QED BY <1>2, <1>3, Zenon DEF Slot1, Slot2, Vpn

LEMMA SlotIs ==
  ASSUME NEW a \in VAddr
  PROVE  /\ a \in Nat /\ Slot1(a) \in Nat /\ Slot2(a) = Slot1(a) \div Fanout
         /\ vpn_index(a, 2) = Slot2(a) /\ vpn_index(a, 1) = Slot1(a) % Fanout
<1>1. Fanout \in Nat \ {0}
  BY TableAssumption
<1>2. a \in Nat /\ Vpn(a) \in Nat /\ Vpn(a) < Fanout * Fanout * Fanout
  BY VpnIs
<1>3. Slot1(a) = Vpn(a) \div Fanout /\ Slot2(a) = Slot1(a) \div Fanout
  BY <1>2, SlotDivs
<1>4. Slot1(a) \in Nat
  <2> DEFINE v == Vpn(a)
  <2>1. v \in Nat
    BY <1>2
  <2> HIDE DEF v
  <2>2. v \div Fanout \in Nat
    BY <1>1, <2>1, DivMod
  <2> QED BY <1>3, <2>2 DEF v
<1>5. vpn_index(a, 1) = Slot1(a) % Fanout /\ vpn_index(a, 2) = Slot2(a) % Fanout
  BY <1>2, <1>3, IndexIs
<1>6. Slot2(a) % Fanout = Slot2(a)
  <2>1. ((Vpn(a) \div Fanout) \div Fanout) % Fanout = (Vpn(a) \div Fanout) \div Fanout
    BY <1>1, <1>2, Digits
  <2> QED BY <1>3, <2>1
<1> QED BY <1>2, <1>3, <1>4, <1>5, <1>6

(* Links of the root and of the tables below it are on the way to bytes of *)
(* the kernel.                                                             *)
Used(T, root) ==
  /\ \A i \in Index : pte_valid(T[root][i]) => \E a \in KernelBytes : vpn_index(a, 2) = i
  /\ \A t \in Stratum(T, root, 1), i \in Index : pte_valid(T[t][i]) =>
       \E a \in KernelBytes : /\ pte_valid(Entry2(T, root, a)) /\ t = Table1(T, root, a)
                              /\ vpn_index(a, 1) = i

Slots2 == {Slot2(a) : a \in KernelBytes}
Slots1 == {Slot1(a) : a \in KernelBytes}

LEMMA SlotsCount ==
  /\ IsFiniteSet(Slots2) /\ IsFiniteSet(Slots1)
  /\ Cardinality(Slots2) \in Nat /\ Cardinality(Slots1) \in Nat
  /\ TablesNeeded = 1 + Cardinality(Slots2) + Cardinality(Slots1)
<1>1. IsFiniteSet(KernelBytes)
  <2>1. VSize - 1 \in Int /\ KernelBytes \in SUBSET (0..(VSize - 1))
    BY VSizeIs, KernelBytesAre DEF VAddr
  <2>2. IsFiniteSet(0..(VSize - 1))
    BY <2>1, FS_Interval
  <2> QED BY <2>1, <2>2, FS_Subset
<1>2. [a \in KernelBytes |-> Slot2(a)] \in Surjection(KernelBytes, Slots2)
  BY DEF Surjection, Slots2
<1>3. [a \in KernelBytes |-> Slot1(a)] \in Surjection(KernelBytes, Slots1)
  BY DEF Surjection, Slots1
<1>4. IsFiniteSet(Slots2) /\ IsFiniteSet(Slots1)
  BY <1>1, <1>2, <1>3, FS_Surjection
<1>5. TablesNeeded = 1 + Cardinality(Slots2) + Cardinality(Slots1)
  BY DEF TablesNeeded, Slots2, Slots1, Slot2, Slot1
<1> QED BY <1>4, <1>5, FS_CardinalityType

LEMMA RootLinks ==
  ASSUME NEW T, NEW root, root # nullptr, Used(T, root), NEW va \in KernelBytes
  PROVE  /\ Cardinality(LinksOf(T, Top(root))) <= Cardinality(Slots2)
         /\ ~pte_valid(Entry2(T, root, va)) =>
              Cardinality(LinksOf(T, Top(root))) # Cardinality(Slots2)
<1> DEFINE L == LinksOf(T, Top(root))
           f == [l \in L |-> l[2]]
<1>1. ASSUME NEW l \in L
      PROVE  /\ l[1] = root /\ l[2] \in Index /\ l = <<l[1], l[2]>>
             /\ pte_valid(T[root][l[2]])
  BY DEF LinksOf, Top
<1> HIDE DEF L
<1>2. ASSUME NEW l \in L PROVE l[2] \in Slots2
  <2>1. PICK a \in KernelBytes : vpn_index(a, 2) = l[2]
    BY <1>1 DEF Used
  <2>2. Slot2(a) = l[2]
    BY <2>1, SlotIs, KernelBytesAre
  <2> QED BY <2>2 DEF Slots2
<1>3. f \in [L -> Slots2]
  BY <1>2
<1>4. ASSUME NEW l \in L, NEW k \in L, f[l] = f[k] PROVE l = k
  BY <1>1, <1>4
<1>5. f \in Injection(L, Slots2)
  <2>1. \A l \in DOMAIN f, k \in DOMAIN f : f[l] = f[k] => l = k
    BY <1>4
  <2> HIDE DEF f
  <2> QED BY <1>3, <2>1 DEF Injection, IsInjective
<1>6. ASSUME f \in Surjection(L, Slots2) PROVE pte_valid(Entry2(T, root, va))
  <2>1. Slot2(va) \in Slots2
    BY DEF Slots2
  <2>2. PICK l \in L : f[l] = Slot2(va)
    BY <1>6, <2>1 DEF Surjection
  <2>3. l[2] = vpn_index(va, 2)
    BY <2>2, SlotIs, KernelBytesAre
  <2> QED BY <1>1, <2>3 DEF Entry2
<1> HIDE DEF f
<1>7. /\ Cardinality(L) <= Cardinality(Slots2)
      /\ Cardinality(L) = Cardinality(Slots2) => f \in Surjection(L, Slots2)
  BY <1>5, SlotsCount, FS_Injection
<1> QED BY <1>6, <1>7 DEF L

LEMMA MiddleLinks ==
  ASSUME NEW T, NEW root, root # nullptr, Used(T, root), NEW va \in KernelBytes
  PROVE  /\ Cardinality(LinksOf(T, Under(T, Top(root)))) <= Cardinality(Slots1)
         /\ (pte_valid(Entry2(T, root, va)) /\ ~pte_valid(Entry1(T, root, va))) =>
              Cardinality(LinksOf(T, Under(T, Top(root)))) # Cardinality(Slots1)
<1> DEFINE L == LinksOf(T, Under(T, Top(root)))
           For(l, a) == /\ l[1] = Table1(T, root, a) /\ l[2] = vpn_index(a, 1)
                        /\ pte_valid(Entry1(T, root, a))
           by == [l \in L |-> CHOOSE a \in KernelBytes : For(l, a)]
           f == [l \in L |-> Slot1(by[l])]
<1>1. ASSUME NEW l \in L
      PROVE  /\ l[1] \in Stratum(T, root, 1) /\ l[2] \in Index /\ l = <<l[1], l[2]>>
             /\ pte_valid(T[l[1]][l[2]])
  BY DEF LinksOf, Stratum
<1> HIDE DEF L
<1>2. ASSUME NEW l \in L PROVE by[l] \in KernelBytes /\ For(l, by[l])
  <2>1. PICK a \in KernelBytes : l[1] = Table1(T, root, a) /\ vpn_index(a, 1) = l[2]
    BY <1>1 DEF Used
  <2>2. For(l, a)
    BY <1>1, <2>1 DEF Entry1
  <2> HIDE DEF For
  <2> QED BY <2>2
<1> HIDE DEF by
<1>3. ASSUME NEW a \in KernelBytes, NEW b \in KernelBytes, Slot1(a) = Slot1(b)
      PROVE  /\ Table1(T, root, a) = Table1(T, root, b) /\ vpn_index(a, 1) = vpn_index(b, 1)
             /\ Entry1(T, root, a) = Entry1(T, root, b)
  <2>1. vpn_index(a, 2) = vpn_index(b, 2) /\ vpn_index(a, 1) = vpn_index(b, 1)
    BY <1>3, SlotIs, KernelBytesAre
  <2> QED BY <2>1 DEF Table1, Entry2, Entry1
<1>4. f \in [L -> Slots1]
  BY <1>2 DEF Slots1
<1>5. ASSUME NEW l \in L, NEW k \in L, f[l] = f[k] PROVE l = k
  <2>1. Slot1(by[l]) = Slot1(by[k])
    BY <1>5
  <2>2. /\ Table1(T, root, by[l]) = Table1(T, root, by[k])
        /\ vpn_index(by[l], 1) = vpn_index(by[k], 1)
    BY <1>2, <1>3, <2>1
  <2>3. l[1] = k[1] /\ l[2] = k[2]
    BY <1>2, <2>2
  <2> QED BY <1>1, <2>3
<1>6. f \in Injection(L, Slots1)
  <2>1. \A l \in DOMAIN f, k \in DOMAIN f : f[l] = f[k] => l = k
    BY <1>5
  <2> HIDE DEF f
  <2> QED BY <1>4, <2>1 DEF Injection, IsInjective
<1>7. ASSUME f \in Surjection(L, Slots1) PROVE pte_valid(Entry1(T, root, va))
  <2>1. Slot1(va) \in Slots1
    BY DEF Slots1
  <2>2. PICK l \in L : f[l] = Slot1(va)
    BY <1>7, <2>1 DEF Surjection
  <2>3. Entry1(T, root, va) = Entry1(T, root, by[l])
    BY <1>2, <1>3, <2>2
  <2> QED BY <1>2, <2>3
<1> HIDE DEF f
<1>8. /\ Cardinality(L) <= Cardinality(Slots1)
      /\ Cardinality(L) = Cardinality(Slots1) => f \in Surjection(L, Slots1)
  BY <1>6, SlotsCount, FS_Injection
<1> QED BY <1>7, <1>8 DEF L

(* The pages of a tree are counted by its links. *)
LEMMA TreeCount ==
  ASSUME NEW T, NEW F, NEW root, Tree(T, {}, F, root), root # nullptr
  PROVE  /\ Cardinality(LinksOf(T, Top(root))) \in Nat
         /\ Cardinality(LinksOf(T, Under(T, Top(root)))) \in Nat
         /\ Cardinality(F) = 1 + Cardinality(LinksOf(T, Top(root)))
                               + Cardinality(LinksOf(T, Under(T, Top(root))))
<1> DEFINE l2 == Top(root)
           l1 == Under(T, l2)
           l0 == Under(T, l1)
<1>1. Shape(T, {}, F, l2, l1, l0)
  BY DEF Tree
<1>2. l2 = {root}
  BY DEF Top
<1>3. /\ F = l2 \cup l1 \cup l0 /\ F \subseteq Frames
      /\ Apart({}, l2, l1, l0) /\ Linked(T, l2 \cup l1)
  BY <1>1 DEF Shape
<1>4. Linked(T, l2) /\ Linked(T, l1)
  <2> HIDE DEF l2, l1
  <2> QED BY <1>3 DEF Linked
<1>5. l2 \in SUBSET Frames /\ l1 \in SUBSET Frames
  BY <1>3
<1>6. /\ IsFiniteSet(l2) /\ IsFiniteSet(l1) /\ IsFiniteSet(l0)
      /\ IsFiniteSet(LinksOf(T, l2)) /\ IsFiniteSet(LinksOf(T, l1))
      /\ Cardinality(LinksOf(T, l2)) = Cardinality(l1)
      /\ Cardinality(LinksOf(T, l1)) = Cardinality(l0)
  BY <1>4, <1>5, LinksCount
<1> HIDE DEF l1, l0
<1>7. IsFiniteSet(l2 \cup l1) /\ Cardinality(l2 \cup l1) = Cardinality(l2) + Cardinality(l1)
  BY <1>3, <1>6, CountApart DEF Apart
<1>8. Cardinality(l2 \cup l1 \cup l0) = Cardinality(l2 \cup l1) + Cardinality(l0)
  <2>1. (l2 \cup l1) \cap l0 = {}
    BY <1>3 DEF Apart
  <2> QED BY <1>6, <1>7, <2>1, CountApart
<1>9. Cardinality(l2) = 1
  <2>1. Cardinality({} \cup {root}) = Cardinality({}) + 1 /\ Cardinality({}) = 0
    BY FS_EmptySet, FS_AddElement
  <2>2. {} \cup {root} = l2
    BY <1>2
  <2> QED BY <2>1, <2>2
<1>10. /\ Cardinality(LinksOf(T, l2)) \in Nat /\ Cardinality(LinksOf(T, l1)) \in Nat
  BY <1>6, FS_CardinalityType
<1> HIDE DEF l2
<1> QED BY <1>3, <1>6, <1>7, <1>8, <1>9, <1>10 DEF l2, l1

(* While the way to a byte of the kernel is not built, a page is left. *)
LEMMA TablesSuffice ==
  ASSUME NEW T, NEW A, NEW F, NEW root, Tree(T, A, F, root), root # nullptr,
         Used(T, root), Cardinality(F) >= TablesNeeded,
         NEW va \in KernelBytes, ~Upper(T, root, va)
  PROVE  A # {}
<1> SUFFICES ASSUME A = {} PROVE FALSE
  OBVIOUS
<1> DEFINE n2 == Cardinality(LinksOf(T, Top(root)))
           n1 == Cardinality(LinksOf(T, Under(T, Top(root))))
           s2 == Cardinality(Slots2)
           s1 == Cardinality(Slots1)
<1>1. n2 \in Nat /\ n1 \in Nat /\ Cardinality(F) = 1 + n2 + n1
  BY TreeCount
<1>2. s2 \in Nat /\ s1 \in Nat /\ TablesNeeded = 1 + s2 + s1
  BY SlotsCount
<1>3. n2 <= s2 /\ (~pte_valid(Entry2(T, root, va)) => n2 # s2)
  BY RootLinks
<1>4. /\ n1 <= s1
      /\ pte_valid(Entry2(T, root, va)) /\ ~pte_valid(Entry1(T, root, va)) => n1 # s1
  BY MiddleLinks
<1>5. ~pte_valid(Entry2(T, root, va)) \/ ~pte_valid(Entry1(T, root, va))
  BY DEF Upper
<1> HIDE DEF n2, n1, s2, s1
<1>6. n2 # s2 \/ n1 # s1
  BY <1>3, <1>4, <1>5
<1> QED BY <1>1, <1>2, <1>3, <1>4, <1>6

(* Every valid entry of the lowest level is a leaf. *)
Firm(T, root) ==
  \A t \in Stratum(T, root, 0), i \in Index : pte_valid(T[t][i]) => pte_leaf(T[t][i])

(* A table on the way to a byte of the kernel keeps all this. *)
LEMMA AttachUses ==
  ASSUME NEW T, NEW A, NEW F, NEW root, Tree(T, A, F, root), root # nullptr,
         Used(T, root), Firm(T, root), NEW va \in KernelBytes, NEW page \in A,
         NEW t, NEW i \in Index, ~pte_valid(T[t][i]),
         \/ t = root /\ i = vpn_index(va, 2)
         \/ /\ pte_valid(Entry2(T, root, va)) /\ t = Table1(T, root, va)
            /\ i = vpn_index(va, 1)
  PROVE  Used(Attached(T, t, i, page), root) /\ Firm(Attached(T, t, i, page), root)
<1> DEFINE l2 == Top(root)
           l1 == Under(T, l2)
           l0 == Under(T, l1)
           T2 == Attached(T, t, i, page)
<1>1. Shape(T, A, F, l2, l1, l0)
  BY DEF Tree
<1>2. va \in Nat /\ KernelBytes \subseteq Nat
  BY KernelBytesAre
<1>3. /\ root \in l2 /\ l2 = {root}
      /\ pte_valid(Entry2(T, root, va)) => Table1(T, root, va) \in l1
  BY <1>2, Places DEF Top
<1>4. t \in l2 \cup l1
  BY <1>3
<1>5. /\ l2 \cup l1 \cup l0 \subseteq Frames
      /\ page \notin l2 /\ page \notin l1 /\ page \notin l0
      /\ l2 \cap l1 = {} /\ l2 \cap l0 = {} /\ l1 \cap l0 = {}
  BY <1>1 DEF Shape, Apart
<1>6. /\ Stratum(T, root, 1) = l1 /\ Stratum(T, root, 0) = l0
      /\ Stratum(T2, root, 1) = Under(T2, l2)
      /\ Stratum(T2, root, 0) = Under(T2, Under(T2, l2))
  BY DEF Stratum
<1> HIDE DEF l2, l1, l0, T2
<1>7. /\ pte_valid(T2[t][i]) /\ pte_to_pa(T2[t][i]) = page
      /\ \A j \in Index : T2[page][j] = ZeroPte
      /\ \A u \in Frames \ {page}, j \in Index : (u # t \/ j # i) => T2[u][j] = T[u][j]
      /\ t \in l2 => Shape(T2, A \ {page}, F, l2, l1 \cup {page}, l0)
      /\ t \in l1 => Shape(T2, A \ {page}, F, l2, l1, l0 \cup {page})
  <2>1. T \in Contents /\ t \in Frames /\ page \in Frames /\ t # page
    BY <1>1, <1>4, <1>5 DEF Shape
  <2>2. /\ pte_valid(T2[t][i]) /\ pte_to_pa(T2[t][i]) = page
        /\ \A j \in Index : T2[page][j] = ZeroPte
        /\ \A u \in Frames \ {page}, j \in Index : (u # t \/ j # i) => T2[u][j] = T[u][j]
    BY <2>1, AttachEntries DEF T2
  <2>3. /\ t \in l2 => Shape(T2, A \ {page}, F, l2, l1 \cup {page}, l0)
        /\ t \in l1 => Shape(T2, A \ {page}, F, l2, l1, l0 \cup {page})
    BY <1>1, <1>4, AttachLevels DEF T2
  <2> QED BY <2>2, <2>3
<1>8. ~pte_valid(ZeroPte) /\ \A a \in Nat : vpn_index(a, 2) \in Index /\ vpn_index(a, 1) \in Index
  BY EntryIs, IndexOf
<1>9. CASE t \in l2
  <2>1. t = root /\ i = vpn_index(va, 2) /\ root \notin l1 /\ root \notin l0 /\ root # page
    BY <1>3, <1>5, <1>9
  <2>2. Under(T2, l2) = l1 \cup {page} /\ Under(T2, Under(T2, l2)) = l0
    BY <1>7, <1>9 DEF Shape, Levels
  <2>3. \A u \in l1 \cup l0, j \in Index : T2[u][j] = T[u][j]
    BY <1>5, <1>7, <2>1
  <2>4. \A j \in Index \ {i} : T2[root][j] = T[root][j]
    BY <1>3, <1>5, <1>7, <2>1
  <2>5. ASSUME NEW a \in KernelBytes, pte_valid(Entry2(T, root, a))
        PROVE  Entry2(T2, root, a) = Entry2(T, root, a)
    <3>1. vpn_index(a, 2) \in Index /\ vpn_index(a, 2) # i
      BY <1>2, <1>8, <2>1, <2>5 DEF Entry2
    <3> QED BY <2>4, <3>1 DEF Entry2
  <2>6. ASSUME NEW j \in Index, pte_valid(T2[root][j])
        PROVE  \E a \in KernelBytes : vpn_index(a, 2) = j
    <3>1. CASE j = i
      BY <2>1, <3>1
    <3>2. CASE j # i
      BY <2>4, <2>6, <3>2 DEF Used
    <3> QED BY <3>1, <3>2
  <2>7. ASSUME NEW u \in l1 \cup {page}, NEW j \in Index, pte_valid(T2[u][j])
        PROVE  \E a \in KernelBytes : /\ pte_valid(Entry2(T2, root, a))
                                      /\ u = Table1(T2, root, a) /\ vpn_index(a, 1) = j
    <3>1. u \in l1 /\ pte_valid(T[u][j])
      BY <1>7, <1>8, <2>3, <2>7
    <3>2. PICK a \in KernelBytes : /\ pte_valid(Entry2(T, root, a))
                                   /\ u = Table1(T, root, a) /\ vpn_index(a, 1) = j
      BY <1>6, <3>1 DEF Used
    <3> QED BY <2>5, <3>2 DEF Table1
  <2>8. Used(T2, root)
    BY <1>6, <2>2, <2>6, <2>7 DEF Used
  <2>9. Firm(T2, root)
    BY <1>6, <2>2, <2>3 DEF Firm
  <2> QED BY <2>8, <2>9 DEF T2
<1>10. CASE t \in l1
  <2>1. /\ t # root /\ i = vpn_index(va, 1) /\ root # page /\ t \notin l0
        /\ pte_valid(Entry2(T, root, va)) /\ t = Table1(T, root, va)
    BY <1>3, <1>5, <1>10
  <2>2. Under(T2, l2) = l1 /\ Under(T2, Under(T2, l2)) = l0 \cup {page}
    BY <1>7, <1>10 DEF Shape, Levels
  <2>3. \A j \in Index : T2[root][j] = T[root][j]
    BY <1>3, <1>5, <1>7, <2>1
  <2>4. \A u \in l0, j \in Index : T2[u][j] = T[u][j]
    BY <1>5, <1>7, <2>1
  <2>5. ASSUME NEW a \in KernelBytes
        PROVE  Entry2(T2, root, a) = Entry2(T, root, a)
    BY <1>2, <1>8, <2>3 DEF Entry2
  <2>6. ASSUME NEW u \in l1, NEW j \in Index, pte_valid(T2[u][j])
        PROVE  \E a \in KernelBytes : /\ pte_valid(Entry2(T2, root, a))
                                      /\ u = Table1(T2, root, a) /\ vpn_index(a, 1) = j
    <3>1. CASE u = t /\ j = i
      BY <2>1, <2>5, <3>1 DEF Table1
    <3>2. CASE u # t \/ j # i
      <4>1. T2[u][j] = T[u][j]
        BY <1>5, <1>7, <3>2
      <4>2. PICK a \in KernelBytes : /\ pte_valid(Entry2(T, root, a))
                                     /\ u = Table1(T, root, a) /\ vpn_index(a, 1) = j
        BY <1>6, <2>6, <4>1 DEF Used
      <4> QED BY <2>5, <4>2 DEF Table1
    <3> QED BY <3>1, <3>2
  <2>7. Used(T2, root)
    BY <1>6, <2>2, <2>3, <2>6 DEF Used
  <2>8. Firm(T2, root)
    BY <1>6, <1>7, <1>8, <2>2, <2>4 DEF Firm
  <2> QED BY <2>7, <2>8 DEF T2
<1> QED BY <1>4, <1>9, <1>10

(* A walk to a byte of the kernel gets down. *)
LEMMA DescendUses ==
  ASSUME NEW F, NEW root, NEW w, NEW va \in KernelBytes, NEW n \in 1..2,
         Walked(w, F, root, n), OnPath(w, root, va, n), w.ok,
         Used(w.tables, root), Firm(w.tables, root), Cardinality(F) >= TablesNeeded
  PROVE  /\ Descend(w, va, n).ok
         /\ Used(Descend(w, va, n).tables, root) /\ Firm(Descend(w, va, n).tables, root)
<1> DEFINE i    == vpn_index(va, n)
           T    == w.tables
           A    == w.avail
           t    == w.table
           pte  == T[t][i]
           page == Min(A)
<1>1. w \in WalkRecord(F) /\ Tree(T, A, F, root) /\ root # nullptr
  BY DEF Walked, OnPath
<1>2. va \in Nat /\ i \in Index
  BY KernelBytesAre, IndexOf
<1>3. A \subseteq F /\ F \subseteq Frames /\ w.ok = TRUE
  BY <1>1 DEF Tree, Shape, WalkRecord
<1>4. \/ t = root /\ i = vpn_index(va, 2) /\ pte = Entry2(T, root, va)
      \/ /\ pte_valid(Entry2(T, root, va)) /\ t = Table1(T, root, va)
         /\ i = vpn_index(va, 1) /\ pte = Entry1(T, root, va)
  <2>1. CASE n = 2
    BY <2>1 DEF OnPath, Entry2
  <2>2. CASE n = 1
    BY <2>2 DEF OnPath, Entry1
  <2> QED BY <2>1, <2>2
<1> HIDE DEF i, T, A, t
<1>5. CASE pte_valid(pte)
  <2>1. ~pte_leaf(pte)
    BY <1>1, <1>2, <1>4, <1>5, Places DEF Upper
  <2>2. Descend(w, va, n) = [w EXCEPT !.table = pte_to_pa(pte)]
    BY <1>3, <1>5, <2>1 DEF Descend, i, T, t, A
  <2>3. /\ [w EXCEPT !.table = pte_to_pa(pte)].ok = w.ok
        /\ [w EXCEPT !.table = pte_to_pa(pte)].tables = T
    BY <1>1 DEF WalkRecord, T
  <2> QED BY <2>2, <2>3 DEF T
<1>6. CASE ~pte_valid(pte)
  <2>1. ~Upper(T, root, va)
    BY <1>4, <1>6 DEF Upper
  <2>2. A # {}
    BY <1>1, <2>1, TablesSuffice DEF T, A
  <2>3. page \in A
    <3>1. A \in SUBSET Nat
      BY <1>3, FramesArePages
    <3> QED BY <2>2, <3>1, Least
  <2>4. /\ Descend(w, va, n).ok = TRUE
        /\ Descend(w, va, n).tables = Attached(T, t, i, page)
    BY <1>3, <1>6, <2>2 DEF Descend, alloc_page_table, Attached, i, T, t, A
  <2>5. Used(Attached(T, t, i, page), root) /\ Firm(Attached(T, t, i, page), root)
    <3> HIDE DEF page
    <3>1. Used(T, root) /\ Firm(T, root)
      BY DEF T
    <3> QED BY <1>1, <1>2, <1>4, <1>6, <2>3, <3>1, AttachUses
  <2> QED BY <2>4, <2>5
<1> QED BY <1>5, <1>6

(* So does a leaf written at the lowest level. *)
LEMMA WriteUses ==
  ASSUME NEW T, NEW A, NEW F, NEW root, Tree(T, A, F, root), root # nullptr,
         Used(T, root), Firm(T, root), NEW T2 \in Contents,
         \A u \in Top(root) \cup Under(T, Top(root)) : T2[u] = T[u],
         \A u \in Stratum(T, root, 0), j \in Index : T2[u][j] = T[u][j] \/ pte_leaf(T2[u][j])
  PROVE  Used(T2, root) /\ Firm(T2, root)
<1> DEFINE l2 == Top(root)
           l1 == Under(T, l2)
           l0 == Under(T, l1)
<1>1. Shape(T, A, F, l2, l1, l0) /\ root \in l2 /\ \A u \in l2 \cup l1 : T2[u] = T[u]
  BY DEF Tree, Top
<1>2. Under(T2, l2) = l1 /\ Under(T2, Under(T2, l2)) = l0
  <2>1. Shape(T2, A, F, l2, l1, l0)
    <3> HIDE DEF l2, l1, l0
    <3> QED BY <1>1, WriteLeaf
  <2> QED BY <2>1 DEF Shape, Levels
<1>3. /\ Stratum(T, root, 1) = l1 /\ Stratum(T, root, 0) = l0
      /\ Stratum(T2, root, 1) = l1 /\ Stratum(T2, root, 0) = l0
  BY <1>2 DEF Stratum
<1> HIDE DEF l2, l1, l0
<1>4. T2[root] = T[root] /\ \A u \in l1 : T2[u] = T[u]
  BY <1>1
<1>5. \A a : Entry2(T2, root, a) = Entry2(T, root, a) /\ Table1(T2, root, a) = Table1(T, root, a)
  BY <1>4 DEF Entry2, Table1
<1>6. Used(T2, root)
  <2>1. \A j \in Index : pte_valid(T2[root][j]) => \E a \in KernelBytes : vpn_index(a, 2) = j
    BY <1>4 DEF Used
  <2>2. ASSUME NEW u \in l1, NEW j \in Index, pte_valid(T2[u][j])
        PROVE  \E a \in KernelBytes : /\ pte_valid(Entry2(T2, root, a))
                                      /\ u = Table1(T2, root, a) /\ vpn_index(a, 1) = j
    <3>1. PICK a \in KernelBytes : /\ pte_valid(Entry2(T, root, a))
                                   /\ u = Table1(T, root, a) /\ vpn_index(a, 1) = j
      BY <1>3, <1>4, <2>2 DEF Used
    <3> QED BY <1>5, <3>1
  <2> QED BY <1>3, <2>1, <2>2 DEF Used
<1>7. Firm(T2, root)
  BY <1>3 DEF Firm
<1> QED BY <1>6, <1>7

(* map_page maps a page of the kernel that is not mapped. *)
LEMMA MapPageSucceeds ==
  ASSUME NEW root \in PageAddr, root # nullptr, NEW va \in PageAddr, NEW pa \in PageAddr,
         va \in KernelBytes, NEW flags \in {Ram, Device},
         free \subseteq pool, Tree(mem, free, pool, root),
         Used(mem, root), Firm(mem, root), Cardinality(pool) >= TablesNeeded,
         ~Mapped(Leaf(mem, root, va))
  PROVE  LET m == map_page(root, va, pa, flags)
         IN m.ok /\ Used(m.tables, root) /\ Firm(m.tables, root)
<1> DEFINE start == [ok |-> root # nullptr /\ is_page_aligned(va) /\ is_page_aligned(pa),
                     tables |-> mem, avail |-> free, table |-> root]
           w1 == Descend(start, va, 2)
           w  == Descend(w1, va, 1)
           i  == vpn_index(va, 0)
           e  == make_pte(pa, flags \cup {"V"})
           m  == map_page(root, va, pa, flags)
<1>1. va \in Nat /\ flags \in SUBSET Flag /\ flags \cap {"R", "W", "X"} # {}
  BY PageAddrIs DEF Ram, Device, Flag
<1>2. /\ Walked(start, pool, root, 2) /\ OnPath(start, root, va, 2)
      /\ start.tables = mem /\ start.ok
  <2>1. mem \in Contents
    BY DEF Tree, Shape
  <2>2. start \in WalkRecord(pool)
    BY <2>1 DEF WalkRecord
  <2>3. root \in Stratum(mem, root, 2)
    BY DEF Stratum, Top
  <2>4. start.table = root /\ start.tables = mem /\ start.avail = free /\ start.ok
    BY DEF PageAddr
  <2> HIDE DEF start
  <2>5. OnPath(start, root, va, 2)
    BY <2>4 DEF OnPath
  <2> QED BY <2>2, <2>3, <2>4, <2>5 DEF Walked
<1>3. m = IF ~w.ok \/ occupied(w.tables[w.table][i])
          THEN [w EXCEPT !.ok = FALSE]
          ELSE [w EXCEPT !.tables[w.table][i] = e]
  BY DEF map_page
<1> HIDE DEF start
<1>4. /\ Walked(w1, pool, root, 1) /\ OnPath(w1, root, va, 1)
      /\ SameSpace(w1.tables, mem, root)
      /\ w1.ok /\ Used(w1.tables, root) /\ Firm(w1.tables, root)
  <2>1. /\ Walked(w1, pool, root, 2 - 1) /\ OnPath(w1, root, va, 2 - 1)
        /\ SameSpace(w1.tables, start.tables, root)
    BY <1>1, <1>2, DescendKeeps, DescendFollows
  <2>2. w1.ok /\ Used(w1.tables, root) /\ Firm(w1.tables, root)
    BY <1>2, DescendUses
  <2> QED BY <1>2, <2>1, <2>2
<1> HIDE DEF w1
<1>5. /\ Walked(w, pool, root, 0) /\ OnPath(w, root, va, 0)
      /\ SameSpace(w.tables, w1.tables, root)
      /\ w.ok /\ Used(w.tables, root) /\ Firm(w.tables, root)
  <2>1. /\ Walked(w, pool, root, 1 - 1) /\ OnPath(w, root, va, 1 - 1)
        /\ SameSpace(w.tables, w1.tables, root)
    BY <1>1, <1>4, DescendKeeps, DescendFollows
  <2>2. w.ok /\ Used(w.tables, root) /\ Firm(w.tables, root)
    BY <1>4, DescendUses
  <2> QED BY <2>1, <2>2
<1> HIDE DEF w, m, i, e
<1> DEFINE T  == w.tables
           t  == w.table
           T2 == [T EXCEPT ![t][i] = e]
<1>6. /\ w \in WalkRecord(pool) /\ Tree(T, w.avail, pool, root)
      /\ t \in Stratum(T, root, 0) /\ Upper(T, root, va) /\ t = Table0(T, root, va)
  BY <1>5 DEF Walked, OnPath
<1>7. i \in Index /\ e \in Pte /\ pte_leaf(e)
  <2>1. i \in Index
    BY <1>1, IndexOf DEF i
  <2>2. e \in Pte /\ e.flags = flags \cup {"V"}
    BY <1>1, MadeEntry DEF Flag, e
  <2> QED BY <1>1, <2>1, <2>2 DEF pte_leaf
<1> HIDE DEF T, t
<1>8. ~occupied(T[t][i])
  <2>1. Leaf(T, root, va) = Leaf(mem, root, va)
    BY <1>1, <1>4, <1>5 DEF SameSpace, T
  <2>2. ~Mapped(Entry0(T, root, va))
    BY <1>6, <2>1 DEF Leaf
  <2>3. ~Mapped(T[t][i])
    BY <1>6, <2>2 DEF Entry0, i
  <2>4. pte_valid(T[t][i]) => pte_leaf(T[t][i])
    BY <1>5, <1>6, <1>7 DEF Firm, T
  <2> QED BY <2>3, <2>4 DEF occupied, Mapped
<1>9. m = [w EXCEPT !.tables = T2]
  BY <1>3, <1>5, <1>8 DEF T, t
<1>10. m.ok = w.ok /\ m.tables = T2
  <2> HIDE DEF T2
  <2> QED BY <1>6, <1>9 DEF WalkRecord
<1>11. Used(T2, root) /\ Firm(T2, root)
  <2>1. Used(T, root) /\ Firm(T, root)
    BY <1>5 DEF T
  <2> DEFINE R == [T[t] EXCEPT ![i] = e]
  <2>2. /\ T \in Contents /\ t \in Frames /\ Stratum(T, root, 0) \subseteq Frames
        /\ Top(root) \cup Under(T, Top(root)) \subseteq Frames
        /\ t \notin Top(root) \cup Under(T, Top(root))
    BY <1>6 DEF Tree, Shape, Apart, Stratum
  <2>3. R \in [Index -> Pte] /\ R[i] = e /\ \A j \in Index \ {i} : R[j] = T[t][j]
    BY <1>7, <2>2 DEF Contents
  <2>4. T2 = [T EXCEPT ![t] = R]
    OBVIOUS
  <2> HIDE DEF R, T2
  <2>5. T2 \in Contents /\ T2[t] = R /\ \A u \in Frames : u # t => T2[u] = T[u]
    BY <2>2, <2>3, <2>4 DEF Contents
  <2>6. \A u \in Top(root) \cup Under(T, Top(root)) : T2[u] = T[u]
    BY <2>2, <2>5
  <2>7. \A u \in Stratum(T, root, 0), j \in Index :
          T2[u][j] = T[u][j] \/ pte_leaf(T2[u][j])
    BY <1>7, <2>2, <2>3, <2>5
  <2> QED BY <1>6, <2>1, <2>5, <2>6, <2>7, WriteUses
<1> QED BY <1>5, <1>10, <1>11 DEF m

-----------------------------------------------------------------------------
(* Boot.  With enough pages, every region map_range has been called for is *)
(* granted or in its loop, and no page but theirs is mapped.               *)

Started == 3 - Len(todo)
Enough  == Cardinality(pool) >= TablesNeeded

Queue ==
  /\ Len(todo) \in 0..3 /\ \A j \in 1..Len(todo) : todo[j] = Regions[Started + j]
  /\ \A l \in loop : Started # 0 /\ l.call = RegionCall(Started) /\ l.end = End(Started)
  /\ \A n \in 1..Started : RegionCall(n) \in granted \/ (n = Started /\ loop # {})

(* The addresses that are mapped by now. *)
Reached(a) ==
  \E n \in 1..Started : /\ Regions[n].va <= a /\ a < End(n)
                        /\ n = Started => \A l \in loop : a < l.cur_va
Sparse == \A a \in VAddr : Mapped(Leaf(mem, g_kernel_page_table, a)) => Reached(a)

BootInv ==
  /\ g_kernel_page_table # nullptr /\ Queue /\ Sparse
  /\ Used(mem, g_kernel_page_table) /\ Firm(mem, g_kernel_page_table)

Kept == \A n \in 1..3 : RegionCall(n) \in granted

LEMMA BootAllocRoot ==
  ASSUME SInv, AllocRoot, Enough
  PROVE  BootInv'
<1>1. TInv /\ Tree(mem, free, pool, nullptr) /\ loop = {} /\ loop' = loop /\ granted' = granted
  BY DEF SInv, TInv, Boot, AllocRoot
<1>2. free = pool /\ mem \in Contents /\ pool \subseteq Frames
  BY <1>1, NoRoot DEF Tree, Shape
<1>3. free # {}
  <2>1. TablesNeeded \in Nat \ {0}
    BY SlotsCount
  <2>2. Cardinality({}) = 0
    BY FS_EmptySet
  <2> QED BY <1>2, <2>1, <2>2 DEF Enough
<1> DEFINE page == Min(free)
           T2   == zero_page(mem, page)
<1>4. page \in free
  <2>1. free \in SUBSET Nat
    BY <1>2, FramesArePages
  <2> QED BY <1>3, <2>1, Least
<1>5. page \in Frames /\ page # nullptr
  BY <1>2, <1>4, FramesArePages
<1>6. mem' = T2 /\ g_kernel_page_table' = page /\ todo' = Regions
  BY <1>3 DEF AllocRoot, alloc_page_table
<1>7. \A i \in Index : T2[page][i] = ZeroPte
  BY <1>2, <1>5 DEF zero_page, Contents
<1>8. \A a \in Nat : Leaf(mem', g_kernel_page_table', a) = ZeroPte
  BY <1>1, EmptyRoot
<1> HIDE DEF T2, page
<1>9. Stratum(T2, page, 1) = {} /\ Stratum(T2, page, 0) = {}
  <2>1. Top(page) = {page}
    BY <1>5 DEF Top
  <2>2. \A x : x \notin Under(T2, {page})
    BY <1>7, EntryIs, UnderIs
  <2>3. Under(T2, {page}) = {} /\ Under(T2, {}) = {}
    BY <2>2, NoRoot
  <2> QED BY <2>1, <2>3 DEF Stratum
<1>10. Used(T2, page) /\ Firm(T2, page)
  BY <1>7, <1>9, EntryIs DEF Used, Firm
<1>11. Queue'
  <2>1. Len(todo') = 3 /\ Started' = 0
    BY <1>6 DEF Started, Regions
  <2>2. \A j \in 1..Len(todo') : todo'[j] = Regions[0 + j]
    BY <1>6, <2>1
  <2> QED BY <1>1, <2>1, <2>2 DEF Queue
<1>12. Sparse'
  <2>1. VAddr \subseteq Nat
    BY VSizeIs DEF VAddr
  <2> QED BY <1>8, <2>1, NotMapped DEF Sparse
<1> QED BY <1>5, <1>6, <1>10, <1>11, <1>12 DEF BootInv

LEMMA BootMapRegion ==
  ASSUME SInv, BootInv, MapRegion
  PROVE  BootInv'
<1> DEFINE k == Started
           n == k + 1
           r == Head(todo)
           l == [call |-> RegionCall(n), cur_va |-> Regions[n].va, cur_pa |-> Regions[n].va,
                 flags |-> r.flags, end |-> End(n)]
<1>1. /\ todo \in Seq(GoodRegion) /\ todo # <<>> /\ loop = {} /\ todo' = Tail(todo)
      /\ map_range(r.va, r.va, r.size, r.flags)
      /\ UNCHANGED <<mem, g_kernel_page_table>>
  BY DEF SInv, MapRegion
<1>2. /\ Len(todo) \in 1..3 /\ k \in 0..2 /\ n \in 1..3
      /\ Len(todo') = Len(todo) - 1 /\ Started' = n
      /\ \A j \in 1..Len(todo') : todo'[j] = todo[j + 1]
      /\ r = todo[1]
  BY <1>1 DEF BootInv, Queue, Started
<1>3. \A j \in 1..Len(todo) : todo[j] = Regions[k + j]
  BY DEF BootInv, Queue
<1>4. r = Regions[n] /\ \A j \in 1..Len(todo') : todo'[j] = Regions[n + j]
  <2> HIDE DEF k, r
  <2>1. 1 \in 1..Len(todo) /\ \A j \in 1..Len(todo') : j + 1 \in 1..Len(todo)
    BY <1>2
  <2>2. \A j \in 1..Len(todo') : k + (j + 1) = n + j
    BY <1>2
  <2> QED BY <1>2, <1>3, <2>1, <2>2
<1> HIDE DEF k, r, n
<1>5. /\ Regions[n].va \in PageAddr /\ Regions[n].va \in Nat /\ End(n) \in Nat
      /\ Regions[n].size \in Nat \ {0} /\ Regions[n].va + Regions[n].size <= End(n)
  BY <1>2, RegionFacts
<1>6. /\ Regions[n].size # 0 /\ aligned(Regions[n].va, Regions[n].va)
      /\ Regions[n].va < range_end(Regions[n].va, Regions[n].size)
  BY <1>5 DEF aligned, PageAddr, End
<1>7. loop' = {l} /\ granted' = granted
  BY <1>1, <1>4, <1>6 DEF map_range, RegionCall, End
<1>8. l.call = RegionCall(n) /\ l.end = End(n)
  OBVIOUS
<1> HIDE DEF l
<1>9. Queue'
  <2>1. \A j \in 1..k : RegionCall(j) \in granted
    BY <1>1 DEF BootInv, Queue, k
  <2>2. \A j \in 1..n : j \in 1..k \/ j = n
    BY <1>2 DEF n
  <2>3. \A j \in 1..n : RegionCall(j) \in granted' \/ (j = n /\ loop' # {})
    BY <1>7, <2>1, <2>2
  <2>4. Len(todo') \in 0..3 /\ n # 0
    BY <1>2
  <2> QED BY <1>2, <1>4, <1>7, <1>8, <2>3, <2>4 DEF Queue
<1>10. Sparse'
  <2> SUFFICES ASSUME NEW a \in VAddr, Mapped(Leaf(mem, g_kernel_page_table, a))
               PROVE  Reached(a)'
    BY <1>1 DEF Sparse
  <2>1. PICK j \in 1..k : Regions[j].va <= a /\ a < End(j)
    BY DEF BootInv, Sparse, Reached, k
  <2>2. j \in 1..n /\ j # n
    BY <1>2 DEF n
  <2> QED BY <1>2, <2>1, <2>2 DEF Reached
<1> QED BY <1>1, <1>9, <1>10 DEF BootInv

LEMMA BootMapTurn ==
  ASSUME SInv, BootInv, Enough, MapTurn
  PROVE  BootInv'
<1> DEFINE root == g_kernel_page_table
           k    == Started
<1>1. PICK l \in loop : Turn(l)
  BY DEF MapTurn
<1>2. UNCHANGED <<g_kernel_page_table, todo, pool>>
  BY DEF MapTurn
<1> DEFINE m    == map_page(root, l.cur_va, l.cur_pa, l.flags)
           next == l.cur_va + kPageSize
<1>3. /\ l.cur_va \in PageAddr /\ l.cur_va < VSize /\ l.cur_pa \in PageAddr
      /\ \A a \in Nat : IF m.ok /\ SameSlot(a, l.cur_va)
           THEN /\ Leaf(mem, root, a) = ZeroPte /\ Mapped(Leaf(mem', root, a))
                /\ pte_to_pa(Leaf(mem', root, a)) = l.cur_pa
           ELSE Leaf(mem', root, a) = Leaf(mem, root, a)
  BY <1>1, <1>2, TurnMeans
<1>4. /\ Midway(mem, root, l) /\ Tree(mem, free, pool, root) /\ root # nullptr
      /\ Used(mem, root) /\ Firm(mem, root) /\ Queue /\ Sparse
  BY <1>1 DEF SInv, TInv, BootInv
<1>5. /\ root \in PageAddr /\ free \subseteq pool /\ l.flags \in {Ram, Device}
      /\ l \in [call : Call, cur_va : PageAddr, cur_pa : PageAddr, end : PageAddr,
                flags : {Ram, Device}]
  <2>1. TypeOK
    BY DEF SInv, TInv
  <2>2. /\ root \in pool \cup {nullptr} /\ free \subseteq pool /\ pool \subseteq Frames
        /\ l \in [call : Call, cur_va : PageAddr, cur_pa : PageAddr, end : PageAddr,
                  flags : {Ram, Device}]
    BY <1>1, <2>1 DEF TypeOK, Frames
  <2> QED BY <2>2, FramesArePages, PageAddrIs
<1>6. k \in 1..3 /\ l.call = RegionCall(k) /\ l.end = End(k)
  BY <1>1, <1>4 DEF Queue, Started
<1>7. mem' = m.tables
  BY <1>1 DEF Turn
<1>8. Started' = k
  BY <1>2 DEF Started
<1> HIDE DEF k
<1>9. /\ Regions[k].va <= l.cur_va /\ l.cur_va < End(k)
      /\ Regions[k].va \in Nat /\ End(k) \in Nat /\ End(k) \in PageAddr
      /\ l.cur_va \in Nat /\ kPageSize \in Nat \ {0}
  <2>1. RegionCall(k).va = Regions[k].va
    BY DEF RegionCall
  <2>2. l.call.va <= l.cur_va /\ l.cur_va < l.end
    BY <1>4 DEF Midway
  <2> QED BY <1>3, <1>6, <2>1, <2>2, RegionFacts, PageAddrIs, PageCountIs
<1>10. l.cur_va \in KernelBytes
  BY <1>3, <1>6, <1>9, RegionFacts
(* The page the loop stands on is mapped by no region. *)
<1>11. ~Mapped(Leaf(mem, root, l.cur_va))
  <2> SUFFICES ASSUME Mapped(Leaf(mem, root, l.cur_va)) PROVE FALSE
    OBVIOUS
  <2>1. l.cur_va \in VAddr
    BY <1>10, KernelBytesAre
  <2>2. Reached(l.cur_va)
    BY <1>4, <2>1 DEF Sparse
  <2>3. PICK n \in 1..k : /\ Regions[n].va <= l.cur_va /\ l.cur_va < End(n)
                          /\ n = k => l.cur_va < l.cur_va
    BY <1>1, <2>2 DEF Reached, k
  <2>4. n \in 1..3
    BY <1>6
  <2>5. n = k
    BY <1>6, <1>9, <2>3, <2>4, RegionsApart
  <2> QED BY <1>9, <2>3, <2>5
<1>12. m.ok /\ Used(m.tables, root) /\ Firm(m.tables, root)
  BY <1>3, <1>4, <1>5, <1>10, <1>11, MapPageSucceeds DEF Enough
<1>13. next <= End(k) /\ plus(l.cur_va, kPageSize) = next /\ next \in Nat
  BY <1>3, <1>9, NextInRange
<1>14. /\ granted' = granted \cup IF ~(next < l.end) THEN {l.call} ELSE {}
       /\ loop' = IF next < l.end
                  THEN {[l EXCEPT !.cur_va = next, !.cur_pa = plus(l.cur_pa, kPageSize)]}
                  ELSE {}
  BY <1>1, <1>12, <1>13 DEF Turn
<1> HIDE DEF m, root, next
<1>15. ASSUME NEW q \in loop' PROVE q.call = l.call /\ q.end = l.end /\ q.cur_va = next
  <2>1. q = [l EXCEPT !.cur_va = next, !.cur_pa = plus(l.cur_pa, kPageSize)]
    BY <1>14
  <2> QED BY <1>5, <2>1
<1>16. Queue'
  <2>1. Len(todo') \in 0..3 /\ \A j \in 1..Len(todo') : todo'[j] = Regions[k + j]
    BY <1>2, <1>4 DEF Queue, k
  <2>2. \A q \in loop' : k # 0 /\ q.call = RegionCall(k) /\ q.end = End(k)
    BY <1>6, <1>15
  <2>3. \A n \in 1..k : RegionCall(n) \in granted' \/ (n = k /\ loop' # {})
    <3>1. \A n \in 1..k : RegionCall(n) \in granted \/ n = k
      BY <1>4 DEF Queue, k
    <3>2. RegionCall(k) \in granted' \/ loop' # {}
      BY <1>6, <1>14
    <3> QED BY <1>14, <3>1, <3>2
  <2> QED BY <1>8, <2>1, <2>2, <2>3 DEF Queue
<1>17. Sparse'
  <2> SUFFICES ASSUME NEW a \in VAddr, Mapped(Leaf(mem', root, a)) PROVE Reached(a)'
    BY <1>2 DEF Sparse, root
  <2>0. a \in Nat
    BY VSizeIs DEF VAddr
  <2>1. CASE SameSlot(a, l.cur_va)
    <3>1. a \in l.cur_va..(l.cur_va + kPageSize - 1)
      BY <1>3, <2>1, SlotRange
    <3>2. Regions[k].va <= a /\ a < next /\ a < End(k)
      BY <1>9, <1>13, <2>0, <3>1 DEF next
    <3>3. \A q \in loop' : a < q.cur_va
      BY <1>15, <3>2
    <3>4. k \in 1..k
      BY <1>6
    <3> QED BY <1>8, <3>2, <3>3, <3>4 DEF Reached
  <2>2. CASE ~SameSlot(a, l.cur_va)
    <3>1. Leaf(mem', root, a) = Leaf(mem, root, a)
      BY <1>3, <2>0, <2>2
    <3>2. Reached(a)
      BY <1>4, <3>1 DEF Sparse, root
    <3>3. PICK n \in 1..k : /\ Regions[n].va <= a /\ a < End(n)
                            /\ n = k => a < l.cur_va
      BY <1>1, <3>2 DEF Reached, k
    <3>4. n = k => \A q \in loop' : a < q.cur_va
      <4>1. n = k => a < next
        BY <1>9, <2>0, <3>3 DEF next
      <4> QED BY <1>15, <4>1
    <3> QED BY <1>8, <3>3, <3>4 DEF Reached
  <2> QED BY <2>1, <2>2
<1>18. Used(mem', root) /\ Firm(mem', root)
  BY <1>7, <1>12
<1> QED BY <1>2, <1>4, <1>16, <1>17, <1>18 DEF BootInv, root

(* When paging is turned on, all regions are granted; and no call takes    *)
(* away what the kernel was granted.                                       *)
LEMMA EnableGrants ==
  ASSUME BootInv, enable_sv39
  PROVE  Kept'
<1>1. todo = <<>> /\ loop = {} /\ granted' = granted
  BY DEF enable_sv39
<1>2. Started = 3
  BY <1>1 DEF Started
<1>3. \A n \in 1..3 : RegionCall(n) \in granted
  BY <1>1, <1>2 DEF BootInv, Queue
<1> QED BY <1>1, <1>3 DEF Kept

LEMMA KeptTurn ==
  ASSUME Kept, MapTurn
  PROVE  Kept'
<1>1. granted \subseteq granted'
  BY DEF MapTurn, Turn
<1> QED BY <1>1 DEF Kept

LEMMA KeptCall ==
  ASSUME Kept, NEW va, NEW pa, NEW size, CallMapRange(va, pa, size)
  PROVE  Kept'
<1>1. granted \subseteq granted'
  BY DEF CallMapRange, map_range
<1> QED BY <1>1 DEF Kept

LEMMA KeptUnmap ==
  ASSUME SInv, Kept, NEW va \in CallVAs, CallUnmap(va)
  PROVE  Kept'
<1>1. /\ ~Kernel(va)
      /\ granted' = {c \in granted : ~(c.va <= va /\ va < c.va + c.size)}
  BY DEF CallUnmap
<1>2. va \in PageAddr
  BY UnmapMeans
<1>3. ASSUME NEW n \in 1..3 PROVE RegionCall(n) \in granted'
  <2>1. RegionCall(n).va = Regions[n].va /\ RegionCall(n).size = Regions[n].size
    BY DEF RegionCall
  <2>2. /\ Regions[n].va \in Nat /\ Regions[n].size \in Nat /\ End(n) \in Nat
        /\ Regions[n].va + Regions[n].size <= End(n)
        /\ Regions[n].va <= va /\ va < End(n) => Kernel(va)
    BY <1>2, RegionFacts
  <2>3. va \in Nat
    BY <1>2, PageAddrIs
  <2>4. ~(Regions[n].va <= va /\ va < Regions[n].va + Regions[n].size)
    BY <1>1, <2>2, <2>3
  <2>5. RegionCall(n) \in granted
    BY DEF Kept
  <2> QED BY <1>1, <2>1, <2>4, <2>5
<1> QED BY <1>3 DEF Kept

(* What is granted is mapped. *)
LEMMA KeptIsMapped ==
  ASSUME SInv, Kept, NEW a \in KernelBytes
  PROVE  virt_to_phys(g_kernel_page_table, a) = a
<1> DEFINE root == g_kernel_page_table
<1>1. PICK n \in 1..3 : a \in Regions[n].va..(Regions[n].va + Regions[n].size - 1)
  BY KernelBytesAre
<1> DEFINE c == RegionCall(n)
<1>2. c \in granted /\ c.va = Regions[n].va /\ c.pa = Regions[n].va /\ c.size = Regions[n].size
  BY DEF Kept, RegionCall
<1>3. Honours(mem, root, c, c.va + c.size) /\ Tree(mem, free, pool, root)
  BY <1>2 DEF SInv, TInv
<1>4. Regions[n].va \in Nat /\ a \in Nat
  BY RegionFacts, KernelBytesAre
<1>5. Phys(mem, root, a) = c.pa + (a - c.va)
  <2> HIDE DEF c
  <2>1. a \in c.va..((c.va + c.size) - 1)
    <3>1. a \in Regions[n].va..(Regions[n].va + Regions[n].size - 1)
      BY <1>1
    <3>2. Regions[n].va \in Nat /\ Regions[n].size \in Nat
      BY RegionFacts
    <3> QED BY <1>2, <3>1, <3>2
  <2> QED BY <1>3, <2>1 DEF Honours
<1>6. virt_to_phys(root, a) = Phys(mem, root, a)
  BY <1>3, <1>4, PhysIs
<1> HIDE DEF c
<1> QED BY <1>2, <1>4, <1>5, <1>6

(* satp holds the root. *)
Enabled == phase = "paging" /\ satp.ppn * kPageSize = g_kernel_page_table

KInv ==
  /\ SInv
  /\ phase = "regions" /\ Enough => BootInv
  /\ phase = "paging" /\ Enough => Kept
  /\ satp.mode = "Sv39" => Enabled

LEMMA EnableSets ==
  ASSUME SInv, enable_sv39
  PROVE  Enabled'
<1> DEFINE root == g_kernel_page_table
<1>1. root \in PageAddr
  <2>1. root \in pool \cup {nullptr} /\ pool \subseteq Frames
    BY DEF SInv, TInv, TypeOK, Frames
  <2> QED BY <2>1, FramesArePages, PageAddrIs
<1>2. /\ phase' = "paging" /\ g_kernel_page_table' = root
      /\ satp'.ppn = root \div kPageSize
  BY DEF enable_sv39, make_satp
<1> DEFINE q == root \div kPageSize
<1>3. q \in Nat /\ root = kPageSize * q /\ kPageSize \in Nat
  BY <1>1, PageAddrIs, PageCountIs
<1> HIDE DEF q, root
<1>4. q * kPageSize = root
  BY <1>3
<1> QED BY <1>2, <1>4 DEF Enabled, q

LEMMA KernelNext == KInv /\ [Next]_vars => KInv'
<1> SUFFICES ASSUME KInv, [Next]_vars PROVE KInv'
  OBVIOUS
<1>1. SInv /\ SInv'
  BY SpaceNext DEF KInv
<1>2. ASSUME UNCHANGED <<g_kernel_page_table, satp, phase>>
      PROVE  satp'.mode = "Sv39" => Enabled'
  BY <1>2 DEF KInv, Enabled
<1>3. ASSUME pool' = pool PROVE Enough' = Enough
  BY <1>3 DEF Enough, TablesNeeded
<1>4. CASE AllocRoot
  <2>1. phase = "root" /\ phase' = "regions" /\ pool' = pool /\ satp' = satp
    BY <1>4 DEF AllocRoot
  <2>2. satp'.mode # "Sv39"
    BY <2>1 DEF KInv, Enabled
  <2>3. Enough => BootInv'
    BY <1>1, <1>4, BootAllocRoot
  <2> QED BY <1>1, <1>3, <2>1, <2>2, <2>3 DEF KInv
<1>5. CASE MapRegion
  <2>1. UNCHANGED <<g_kernel_page_table, satp, phase, pool>> /\ granted \subseteq granted'
    BY <1>5 DEF MapRegion, map_range
  <2>2. phase = "regions" /\ Enough => BootInv'
    BY <1>1, <1>5, BootMapRegion DEF KInv
  <2>3. Kept => Kept'
    BY <2>1 DEF Kept
  <2> QED BY <1>1, <1>2, <1>3, <2>1, <2>2, <2>3 DEF KInv
<1>6. CASE MapTurn
  <2>1. UNCHANGED <<g_kernel_page_table, satp, phase, pool>>
    BY <1>6 DEF MapTurn
  <2>2. phase = "regions" /\ Enough => BootInv'
    BY <1>1, <1>6, BootMapTurn DEF KInv
  <2>3. Kept => Kept'
    BY <1>6, KeptTurn
  <2> QED BY <1>1, <1>2, <1>3, <2>1, <2>2, <2>3 DEF KInv
<1>7. CASE enable_sv39
  <2>1. phase = "regions" /\ phase' = "paging" /\ pool' = pool
    BY <1>7 DEF enable_sv39
  <2>2. Enough => Kept'
    BY <1>7, <2>1, EnableGrants DEF KInv
  <2>3. Enabled'
    BY <1>1, <1>7, EnableSets
  <2> QED BY <1>1, <1>3, <2>1, <2>2, <2>3 DEF KInv
<1>8. ASSUME NEW va \in CallVAs, NEW pa \in CallPAs, NEW size \in CallSizes,
             CallMapRange(va, pa, size)
      PROVE  KInv'
  <2>1. phase = "paging" /\ UNCHANGED <<g_kernel_page_table, satp, phase, pool>>
    BY <1>8 DEF CallMapRange
  <2>2. Kept => Kept'
    BY <1>8, KeptCall
  <2> QED BY <1>1, <1>2, <1>3, <2>1, <2>2 DEF KInv
<1>9. ASSUME NEW va \in CallVAs, CallUnmap(va)
      PROVE  KInv'
  <2>1. phase = "paging" /\ UNCHANGED <<g_kernel_page_table, satp, phase, pool>>
    BY <1>9 DEF CallUnmap
  <2>2. Kept => Kept'
    BY <1>1, <1>9, KeptUnmap
  <2> QED BY <1>1, <1>2, <1>3, <2>1, <2>2 DEF KInv
<1>10. CASE UNCHANGED vars
  <2>1. UNCHANGED <<mem, g_kernel_page_table, satp, phase, todo, loop, granted, pool>>
    BY <1>10 DEF vars
  <2>2. BootInv => BootInv'
    <3>1. Queue => Queue'
      BY <2>1 DEF Queue, Started
    <3>2. Sparse => Sparse'
      BY <2>1 DEF Sparse, Reached, Started
    <3> QED BY <2>1, <3>1, <3>2 DEF BootInv
  <2>3. Kept => Kept'
    BY <2>1 DEF Kept
  <2> QED BY <1>1, <1>2, <1>3, <2>1, <2>2, <2>3 DEF KInv
<1> QED BY <1>4, <1>5, <1>6, <1>7, <1>8, <1>9, <1>10 DEF Next

(* With as many free pages as the regions need, from enable_sv39 on every  *)
(* byte of memory, UART and CLINT is mapped to itself, whatever is mapped  *)
(* and unmapped beside it: no map_page of the boot fails, for want of a    *)
(* table or on an entry in use, although its result is thrown away         *)
(* (kernel_address_space.cpp:29-56, mmu.cpp:14-17).                        *)
THEOREM KernelIsMapped == Spec => []KernelStaysMapped
<1>1. Init => KInv
  <2> SUFFICES ASSUME Init PROVE KInv
    OBVIOUS
  <2>1. SInv
    BY SpaceInit
  <2>2. phase = "root" /\ satp.mode = "Bare"
    BY DEF Init
  <2> QED BY <2>1, <2>2 DEF KInv
<1>2. KInv /\ [Next]_vars => KInv'
  BY KernelNext
<1>3. KInv => KernelStaysMapped
  <2> SUFFICES ASSUME KInv, satp.mode = "Sv39", Cardinality(pool) >= TablesNeeded,
                      NEW a \in KernelBytes
               PROVE  virt_to_phys(satp.ppn * kPageSize, a) = a
    BY DEF KernelStaysMapped
  <2>1. SInv /\ Kept /\ satp.ppn * kPageSize = g_kernel_page_table
    BY DEF KInv, Enabled, Enough
  <2> QED BY <2>1, KeptIsMapped
<1> QED BY <1>1, <1>2, <1>3, PTL DEF Spec

-----------------------------------------------------------------------------
(* Other code that takes pages from the same allocator, gives them back    *)
(* and writes into the ones it has.                                        *)

(* What the tables rest on is the same when nothing but the pool moves. *)
LEMMA PoolMoves ==
  ASSUME SInv, UNCHANGED <<mem, g_kernel_page_table, satp, phase, todo, loop, granted>>,
         pool' \in Pools, free' \subseteq pool', g_kernel_page_table \in pool' \cup {nullptr},
         Tree(mem, free', pool', g_kernel_page_table)
  PROVE  SInv'
<1>1. TypeOK'
  BY DEF SInv, TInv, TypeOK
<1>2. Boot'
  BY DEF SInv, TInv, Boot
<1>3. TInv'
  BY <1>1, <1>2 DEF TInv
<1> QED BY <1>3 DEF SInv

LEMMA OthersTake ==
  ASSUME SInv, NEW page \in free, free' = free \ {page}, pool' = pool \ {page},
         pool' \in Pools,
         UNCHANGED <<mem, g_kernel_page_table, satp, phase, todo, loop, granted>>
  PROVE  SInv'
<1> DEFINE root == g_kernel_page_table
           l2   == Top(root)
           l1   == Under(mem, l2)
           l0   == Under(mem, l1)
<1>1. Shape(mem, free, pool, l2, l1, l0) /\ free \subseteq pool /\ root \in pool \cup {nullptr}
  BY DEF SInv, TInv, TypeOK, Tree
<1>2. root # nullptr => root \in l2
  BY DEF Top
<1> HIDE DEF l2, l1, l0, root
<1>3. Shape(mem, free \ {page}, pool \ {page}, l2, l1, l0)
  BY <1>1 DEF Shape, Apart
<1>4. root \in pool' \cup {nullptr} /\ free' \subseteq pool'
  BY <1>1, <1>2 DEF Shape, Apart
<1>5. Tree(mem, free', pool', root)
  BY <1>3 DEF Tree, l2, l1, l0
<1> QED BY <1>4, <1>5, PoolMoves DEF root

LEMMA OthersGive ==
  ASSUME SInv, NEW page \in Frames, page \notin pool, free' = free \cup {page},
         pool' = pool \cup {page}, pool' \in Pools,
         UNCHANGED <<mem, g_kernel_page_table, satp, phase, todo, loop, granted>>
  PROVE  SInv'
<1> DEFINE root == g_kernel_page_table
           l2   == Top(root)
           l1   == Under(mem, l2)
           l0   == Under(mem, l1)
<1>1. Shape(mem, free, pool, l2, l1, l0) /\ free \subseteq pool /\ root \in pool \cup {nullptr}
  BY DEF SInv, TInv, TypeOK, Tree
<1> HIDE DEF l2, l1, l0, root
<1>2. Shape(mem, free \cup {page}, pool \cup {page}, l2, l1, l0)
  BY <1>1 DEF Shape, Apart
<1>3. root \in pool' \cup {nullptr} /\ free' \subseteq pool'
  BY <1>1
<1>4. Tree(mem, free', pool', root)
  BY <1>2 DEF Tree, l2, l1, l0
<1> QED BY <1>3, <1>4, PoolMoves DEF root

(* Pages outside the pool are not part of the tree. *)
LEMMA WriteElsewhere ==
  ASSUME NEW T, NEW A, NEW F, NEW root, Tree(T, A, F, root),
         NEW T2 \in Contents, \A f \in F : T2[f] = T[f]
  PROVE  /\ Tree(T2, A, F, root)
         /\ \A a \in Nat : Leaf(T2, root, a) = Leaf(T, root, a)
<1> DEFINE l2 == Top(root)
           l1 == Under(T, l2)
           l0 == Under(T, l1)
<1>1. Shape(T, A, F, l2, l1, l0)
  BY DEF Tree
<1>2. Shape(T2, A, F, l2, l1, l0)
  <2> HIDE DEF l2, l1, l0
  <2>1. \A t \in l2 \cup l1 : T2[t] = T[t]
    BY <1>1 DEF Shape
  <2> QED BY <1>1, <2>1, WriteLeaf
<1>3. Tree(T2, A, F, root)
  <2>1. l1 = Under(T2, l2) /\ l0 = Under(T2, l1)
    BY <1>2 DEF Shape, Levels
  <2> HIDE DEF l1, l0
  <2> QED BY <1>2, <2>1 DEF Tree
<1>4. ASSUME NEW a \in Nat, root # nullptr PROVE Leaf(T2, root, a) = Leaf(T, root, a)
  <2>1. /\ root \in F
        /\ pte_valid(Entry2(T, root, a)) => Table1(T, root, a) \in F
        /\ Upper(T, root, a) => Table0(T, root, a) \in F
    BY <1>1, <1>4, Places DEF Shape
  <2>2. Entry2(T2, root, a) = Entry2(T, root, a)
    BY <2>1 DEF Entry2
  <2>3. Table1(T2, root, a) = Table1(T, root, a)
    BY <2>2 DEF Table1
  <2>4. pte_valid(Entry2(T, root, a)) => Entry1(T2, root, a) = Entry1(T, root, a)
    BY <2>1, <2>3 DEF Entry1
  <2>5. Upper(T2, root, a) <=> Upper(T, root, a)
    BY <2>2, <2>4 DEF Upper
  <2>6. Upper(T, root, a) => Table0(T2, root, a) = Table0(T, root, a)
    BY <2>4 DEF Upper, Table0
  <2>7. Upper(T, root, a) => Entry0(T2, root, a) = Entry0(T, root, a)
    BY <2>1, <2>6 DEF Entry0
  <2> QED BY <2>5, <2>7 DEF Leaf
<1>5. ASSUME NEW a \in Nat, root = nullptr PROVE Leaf(T2, root, a) = Leaf(T, root, a)
  BY <1>5 DEF Leaf, Upper
<1> QED BY <1>3, <1>4, <1>5

LEMMA OthersWrite ==
  ASSUME SInv, mem' \in Contents, \A f \in pool : mem'[f] = mem[f],
         UNCHANGED <<free, g_kernel_page_table, satp, phase, todo, loop, granted, pool>>
  PROVE  SInv'
<1> DEFINE root == g_kernel_page_table
<1>1. /\ Tree(mem', free, pool, root)
      /\ \A a \in Nat : Leaf(mem', root, a) = Leaf(mem, root, a)
  <2>1. Tree(mem, free, pool, root)
    BY DEF SInv, TInv
  <2> HIDE DEF root
  <2> QED BY <2>1, WriteElsewhere
<1>2. TInv'
  <2>1. TypeOK'
    BY DEF SInv, TInv, TypeOK, Contents
  <2>2. Boot'
    BY DEF SInv, TInv, Boot
  <2> QED BY <1>1, <2>1, <2>2 DEF TInv
<1>3. Solid(mem', root)
  BY <1>1 DEF SInv, Solid
<1>4. Grows(mem, mem', root)
  BY <1>1 DEF Grows
<1>5. ASSUME NEW l \in loop PROVE Midway(mem', root, l)
  <2>1. Midway(mem, root, l) /\ l.cur_va \in Nat
    BY PageAddrIs DEF SInv, TInv, TypeOK
  <2> HIDE DEF root
  <2>2. Honours(mem', root, l.call, l.cur_va)
    BY <1>4, <2>1, HonoursStays DEF Midway
  <2> QED BY <2>1, <2>2 DEF Midway
<1>6. ASSUME NEW c \in granted
      PROVE  GoodCall(c) /\ Honours(mem', root, c, c.va + c.size)
  <2>1. GoodCall(c) /\ Honours(mem, root, c, c.va + c.size)
    BY DEF SInv
  <2>2. c.va + c.size \in Nat
    BY <2>1, GoodCallIs
  <2> HIDE DEF root
  <2> QED BY <1>4, <2>1, <2>2, HonoursStays
<1> QED BY <1>2, <1>3, <1>5, <1>6 DEF SInv
=============================================================================
