---------------------------- MODULE MemoryProofs ----------------------------
(***************************************************************************)
(* No page is handed out twice, none is lost and none overlaps a reserved  *)
(* byte, for every page size, bitmap size and memory layout; page tables   *)
(* built out of such pages hold what PageTablesProofs shows of them, with  *)
(* other code working beside them.                                         *)
(***************************************************************************)
EXTENDS Memory, FiniteSetTheorems, WellFoundedInduction, TLAPS

(* Quotient and remainder. *)
LEMMA DivModUnique ==
  ASSUME NEW b \in Nat \ {0}, NEW q \in Nat, NEW r \in 0..(b - 1)
  PROVE  (b * q + r) \div b = q /\ (b * q + r) % b = r
OBVIOUS

LEMMA ModSmall ==
  ASSUME NEW b \in Nat \ {0}, NEW a \in 0..(b - 1)
  PROVE  a % b = a /\ a \div b = 0
OBVIOUS

LEMMA DivMod ==
  ASSUME NEW a \in Nat, NEW b \in Nat \ {0}
  PROVE  /\ a \div b \in Nat /\ a % b \in 0..(b - 1)
         /\ a = b * (a \div b) + (a % b)
<1>1. a \div b \in Int /\ a % b \in 0..(b - 1)
  OBVIOUS
<1>2. a = b * (a \div b) + (a % b)
  OBVIOUS
<1>3. a \div b >= 0
  BY <1>1, <1>2
<1> QED BY <1>1, <1>2, <1>3

(* Multiples of b that are close to each other. *)
LEMMA Multiples ==
  ASSUME NEW b \in Nat \ {0}, NEW i \in Nat, NEW j \in Nat
  PROVE  /\ b * i \in Nat
         /\ i <= j => b * i <= b * j /\ b * j - b * i = b * (j - i)
         /\ b * i < b * j => i < j
         /\ b * i < b * j + b => i <= j
<1>1. b * i \in Nat /\ b * j \in Nat
  OBVIOUS
<1>2. i <= j => b * i <= b * j /\ b * j - b * i = b * (j - i)
  OBVIOUS
<1>3. ASSUME i >= j PROVE b * i >= b * j
  BY <1>3
<1>4. ASSUME i >= j + 1 PROVE b * i >= b * j + b
  BY <1>4
<1> QED BY <1>1, <1>2, <1>3, <1>4

(* The naturals are well ordered by <. *)
LEMMA NatOrder ==
  \E R : IsWellFoundedOn(R, Nat) /\ \A x, y \in Nat : y < x => <<y, x>> \in R
<1>1. IsWellFoundedOn(OpToRel(<, Nat), Nat)
  BY NatLessThanWellFounded
<1>2. \A x, y \in Nat : y < x => <<y, x>> \in OpToRel(<, Nat)
  BY DEF OpToRel
<1> QED BY <1>1, <1>2, Zenon

(* A set of numbers that is not empty has a least one. *)
LEMMA Least ==
  ASSUME NEW S \in SUBSET Nat, S # {}
  PROVE  Min(S) \in S /\ \A n \in S : Min(S) <= n
<1>1. PICK R : IsWellFoundedOn(R, Nat) /\ \A x, y \in Nat : y < x => <<y, x>> \in R
  BY NatOrder
<1>2. PICK x \in S : \A y \in S : ~(<<y, x>> \in R)
  BY <1>1, WFMin
<1>3. ASSUME NEW y \in S PROVE x <= y
  <2>1. x \in Nat /\ y \in Nat
    OBVIOUS
  <2>2. ~(y < x)
    BY <1>1, <1>2, <2>1, Zenon
  <2> QED BY <2>1, <2>2
<1> QED BY <1>3 DEF Min

-----------------------------------------------------------------------------
(* Page arithmetic *)

(* align_down returns the multiple of the page size at or below. *)
LEMMA AlignDown ==
  ASSUME NEW a \in Nat
  PROVE  /\ a \div kPageSize \in Nat /\ align_down(a) = kPageSize * (a \div kPageSize)
         /\ align_down(a) \in Nat /\ align_down(a) <= a /\ a < align_down(a) + kPageSize
<1>1. kPageSize \in Nat \ {0}
  BY PageAssumption
<1>2. /\ a \div kPageSize \in Nat /\ a % kPageSize \in 0..(kPageSize - 1)
      /\ a = kPageSize * (a \div kPageSize) + (a % kPageSize)
  BY <1>1, DivMod
<1>3. kPageSize * (a \div kPageSize) \in Nat
  BY <1>1, <1>2
<1> QED BY <1>1, <1>2, <1>3 DEF align_down

LEMMA AlignedIsMultiple ==
  ASSUME NEW a \in Nat
  PROVE  is_page_aligned(a) <=> \E q \in Nat : a = kPageSize * q
<1>1. kPageSize \in Nat \ {0} /\ 0 \in 0..(kPageSize - 1)
  BY PageAssumption
<1>2. ASSUME is_page_aligned(a) PROVE \E q \in Nat : a = kPageSize * q
  <2>1. a \div kPageSize \in Nat /\ a = kPageSize * (a \div kPageSize) + (a % kPageSize)
    BY <1>1, DivMod
  <2>2. a % kPageSize = 0
    BY <1>2 DEF is_page_aligned
  <2>3. kPageSize * (a \div kPageSize) \in Nat
    BY <1>1, <2>1
  <2>4. a = kPageSize * (a \div kPageSize)
    BY <2>1, <2>2, <2>3
  <2> QED BY <2>1, <2>4
<1>3. ASSUME NEW q \in Nat, a = kPageSize * q PROVE is_page_aligned(a)
  <2>1. (kPageSize * q + 0) % kPageSize = 0 /\ kPageSize * q + 0 = kPageSize * q
    BY <1>1, DivModUnique
  <2> QED BY <1>3, <2>1 DEF is_page_aligned
<1> QED BY <1>2, <1>3

(* Sums of addresses that stay below the top do not wrap. *)
LEMMA NoWrap ==
  ASSUME NEW a \in Nat, NEW b \in Nat, a + b < AddrSpace
  PROVE  plus(a, b) = a + b /\ minus(a + b, a) = b
<1>1. AddrSpace \in Nat \ {0} /\ a + b \in 0..(AddrSpace - 1) /\ b \in 0..(AddrSpace - 1)
  BY PageAssumption
<1>2. (a + b) % AddrSpace = a + b
  BY <1>1, ModSmall
<1>3. (AddrSpace * 1 + b) % AddrSpace = b
  BY <1>1, DivModUnique
<1>4. (a + b) + AddrSpace - a = AddrSpace * 1 + b
  BY <1>1
<1> QED BY <1>2, <1>3, <1>4 DEF plus, minus

LEMMA AlignUp ==
  ASSUME NEW a \in Nat, a + kPageSize <= AddrSpace
  PROVE  \E n \in Nat : /\ align_up(a) = kPageSize * n /\ align_up(a) \in Addr
                        /\ a <= align_up(a) /\ align_up(a) < a + kPageSize
<1>1. kPageSize \in Nat \ {0} /\ AddrSpace \in Nat \ {0} /\ kPageSize - 1 \in Nat
  BY PageAssumption
<1>2. plus(a, kPageSize - 1) = a + (kPageSize - 1) /\ a + (kPageSize - 1) \in Nat
  BY <1>1, NoWrap
<1>3. align_up(a) = align_down(a + (kPageSize - 1))
  BY <1>2 DEF align_up
<1> DEFINE n == (a + (kPageSize - 1)) \div kPageSize
<1>4. /\ n \in Nat /\ align_up(a) = kPageSize * n /\ align_up(a) \in Nat
      /\ align_up(a) <= a + (kPageSize - 1) /\ a + (kPageSize - 1) < align_up(a) + kPageSize
  BY <1>2, <1>3, AlignDown
<1> HIDE DEF n
<1>5. a <= align_up(a) /\ align_up(a) < a + kPageSize /\ align_up(a) \in Addr
  BY <1>1, <1>4 DEF Addr
<1> QED BY <1>4, <1>5

(* A page's mark is its own bit, and the bitmap has one for every page. *)
LEMMA UsedBit ==
  ASSUME NEW i \in Nat
  PROVE  used_bit(i) = i
<1>1. kBitsPerWord \in Nat \ {0}
  BY PmmAssumption
<1>2. /\ i \div kBitsPerWord \in Nat /\ i % kBitsPerWord \in 0..(kBitsPerWord - 1)
      /\ i = kBitsPerWord * (i \div kBitsPerWord) + (i % kBitsPerWord)
  BY <1>1, DivMod
<1>3. (i \div kBitsPerWord) * kBitsPerWord = kBitsPerWord * (i \div kBitsPerWord)
  BY <1>1, <1>2
<1> QED BY <1>2, <1>3 DEF used_bit, bit, word_index

LEMMA BitsCover ==
  /\ kBitmapWords * kBitsPerWord \in Nat /\ IsFiniteSet(Bits)
  /\ Cardinality(Bits) = kBitmapWords * kBitsPerWord
  /\ 0..(kMaxManagedPages - 1) \subseteq Bits
<1>1. kBitsPerWord \in Nat \ {0} /\ kMaxManagedPages \in Nat \ {0}
  BY PmmAssumption
<1> DEFINE n == kMaxManagedPages + kBitsPerWord - 1
           w == n \div kBitsPerWord
<1>2. n \in Nat
  BY <1>1
<1>3. /\ w \in Nat /\ n % kBitsPerWord \in 0..(kBitsPerWord - 1)
      /\ n = kBitsPerWord * w + (n % kBitsPerWord)
  BY <1>1, <1>2, DivMod
<1>4. kBitmapWords = w
  BY DEF kBitmapWords
<1> HIDE DEF w
<1>5. w * kBitsPerWord \in Nat /\ w * kBitsPerWord >= kMaxManagedPages
  <2>1. w * kBitsPerWord = kBitsPerWord * w /\ kBitsPerWord * w \in Nat
    BY <1>1, <1>3
  <2> QED BY <1>1, <1>3, <2>1
<1>6. IsFiniteSet(Bits) /\ Cardinality(Bits) = w * kBitsPerWord
  <2>1. Bits = 0..(w * kBitsPerWord - 1)
    BY <1>4 DEF Bits
  <2>2. /\ IsFiniteSet(0..(w * kBitsPerWord - 1))
        /\ Cardinality(0..(w * kBitsPerWord - 1)) =
             IF 0 > w * kBitsPerWord - 1 THEN 0 ELSE w * kBitsPerWord - 1 - 0 + 1
    BY <1>5, FS_Interval, SMTT(30)
  <2> QED BY <1>5, <2>1, <2>2
<1> QED BY <1>1, <1>4, <1>5, <1>6 DEF Bits
-----------------------------------------------------------------------------
(* What reserve_range marks: managed pages only, and every one of them     *)
(* that shares a byte with the range.                                      *)
LEMMA ReserveCovers ==
  ASSUME NEW q \in Nat, NEW total \in Nat \ {0}, NEW r \in PhysicalRange,
         kPageSize * q + kPageSize * total < AddrSpace
  PROVE  /\ reserve_range(kPageSize * q, total, r) \subseteq 0..(total - 1)
         /\ \A i \in 0..(total - 1) :
              Overlaps(kPageSize * q + kPageSize * i, r)
                => i \in reserve_range(kPageSize * q, total, r)
<1> DEFINE base  == kPageSize * q
           mend  == base + kPageSize * total
           down  == align_down(r.base)
           up    == reserve_end(r)
           start == IF down < base THEN base ELSE down
           end   == IF up > mend THEN mend ELSE up
<1>1. /\ kPageSize \in Nat \ {0} /\ AddrSpace \in Nat \ {0}
      /\ r.base \in Nat /\ r.size \in Nat /\ r.base + r.size + kPageSize <= AddrSpace
  BY PageAssumption DEF PhysicalRange, Addr
<1>2. base \in Nat /\ kPageSize * total \in Nat /\ mend \in Nat
  BY <1>1
<1>3. plus(base, total * kPageSize) = mend
  <2>1. total * kPageSize = kPageSize * total
    BY <1>1
  <2> QED BY <1>2, <2>1, NoWrap
<1>4. PICK d \in Nat : down = kPageSize * d /\ down \in Nat /\ down <= r.base /\ r.base < down + kPageSize
  BY <1>1, AlignDown
<1>5. PICK u \in Nat : up = kPageSize * u /\ up \in Nat /\ r.base + r.size <= up
  <2>1. plus(r.base, r.size) = r.base + r.size /\ r.base + r.size \in Nat
    BY <1>1, NoWrap
  <2>2. up = align_up(r.base + r.size)
    BY <2>1 DEF reserve_end
  <2>3. \E n \in Nat : /\ align_up(r.base + r.size) = kPageSize * n
                       /\ align_up(r.base + r.size) \in Addr
                       /\ r.base + r.size <= align_up(r.base + r.size)
    BY <1>1, <2>1, AlignUp
  <2>4. Addr \subseteq Nat
    BY <1>1 DEF Addr
  <2> HIDE DEF up
  <2> QED BY <2>2, <2>3, <2>4
<1>6. reserve_range(base, total, r) =
        IF r.size = 0 \/ start >= end THEN {} ELSE IndexRange(base, start, end)
  BY <1>3 DEF reserve_range
<1> HIDE DEF down, up
<1>7. /\ \E n \in Nat : start = kPageSize * n /\ q <= n
      /\ start \in Nat /\ end \in Nat /\ base <= start /\ end <= mend
  <2>1. CASE down < base
    BY <1>1, <1>2, <1>4, <1>5, <2>1
  <2>2. CASE ~(down < base)
    <3>1. kPageSize * q < kPageSize * d + kPageSize
      BY <1>1, <1>2, <1>4, <2>2
    <3>2. q <= d
      BY <1>1, <1>4, <3>1, Multiples
    <3> QED BY <1>1, <1>2, <1>4, <1>5, <2>2, <3>2
  <2> QED BY <2>1, <2>2
<1>8. PICK n \in Nat : start = kPageSize * n /\ q <= n
  BY <1>7
<1>9. reserve_range(base, total, r) \subseteq 0..(total - 1)
  <2> SUFFICES ASSUME NEW pa \in start..(end - 1), (pa - start) % kPageSize = 0
               PROVE  minus(pa, base) \div kPageSize \in 0..(total - 1)
    BY <1>6 DEF IndexRange
  <2> HIDE DEF base, mend, start, end
  <2>1. pa \in Nat /\ pa - base \in Nat /\ pa < mend /\ base + (pa - base) = pa /\ pa < AddrSpace
    BY <1>1, <1>2, <1>7 DEF mend, base
  <2>2. minus(pa, base) = pa - base
    BY <1>2, <2>1, NoWrap
  <2> DEFINE k == (pa - base) \div kPageSize
  <2>3. k \in Nat /\ pa - base = kPageSize * k + ((pa - base) % kPageSize)
        /\ (pa - base) % kPageSize \in 0..(kPageSize - 1)
    BY <1>1, <2>1, DivMod
  <2> HIDE DEF k
  <2>4. kPageSize * k < kPageSize * total
    <3>1. kPageSize * k \in Nat
      BY <1>1, <2>3
    <3>2. pa - base < kPageSize * total
      BY <1>2, <2>1 DEF mend
    <3> QED BY <1>1, <1>2, <2>1, <2>3, <3>1, <3>2
  <2>5. k < total
    BY <1>1, <2>3, <2>4, Multiples
  <2> QED BY <2>2, <2>3, <2>5 DEF k
<1>10. ASSUME NEW i \in 0..(total - 1), Overlaps(base + kPageSize * i, r)
       PROVE  i \in reserve_range(base, total, r)
  <2> DEFINE pa == base + kPageSize * i
  <2>1. /\ r.size > 0 /\ pa < r.base + r.size /\ r.base < pa + kPageSize
    BY <1>10 DEF Overlaps
  <2>2. /\ pa \in Nat /\ kPageSize * i \in Nat /\ pa = kPageSize * (q + i) /\ q + i \in Nat
        /\ pa < mend
    <3>1. kPageSize * i \in Nat /\ pa = kPageSize * (q + i)
      BY <1>1
    <3>2. kPageSize * i < kPageSize * total
      BY <1>1
    <3> QED BY <1>2, <3>1, <3>2
  <2> HIDE DEF pa, base, mend
  <2>3. down <= pa
    <3>1. kPageSize * d < kPageSize * (q + i) + kPageSize
      BY <1>1, <1>4, <2>1, <2>2
    <3>2. d <= q + i
      BY <1>1, <1>4, <2>2, <3>1, Multiples
    <3>3. kPageSize * d <= kPageSize * (q + i)
      BY <1>1, <1>4, <2>2, <3>2, Multiples
    <3> QED BY <1>4, <2>2, <3>3
  <2>4. start <= pa /\ pa < end /\ start < end
    BY <1>1, <1>2, <1>4, <1>5, <2>1, <2>2, <2>3 DEF pa
  <2>5. pa \in start..(end - 1)
    BY <1>7, <2>2, <2>4
  <2>6. (pa - start) % kPageSize = 0
    <3>1. n <= q + i
      <4>1. kPageSize * n < kPageSize * (q + i) + kPageSize
        BY <1>1, <1>7, <1>8, <2>2, <2>4
      <4> QED BY <1>1, <1>8, <2>2, <4>1, Multiples
    <3>2. pa - start = kPageSize * (q + i - n)
      BY <1>1, <1>8, <2>2, <3>1, Multiples
    <3>3. q + i - n \in Nat /\ 0 \in 0..(kPageSize - 1)
      BY <1>1, <1>8, <2>2, <3>1
    <3>4. (kPageSize * (q + i - n) + 0) % kPageSize = 0
      BY <1>1, <3>3, DivModUnique
    <3>5. kPageSize * (q + i - n) + 0 = kPageSize * (q + i - n)
      BY <1>1, <3>3
    <3> QED BY <3>2, <3>4, <3>5
  <2>7. minus(pa, base) \div kPageSize = i
    <3>1. base + kPageSize * i < AddrSpace
      BY <1>1, <1>2, <2>2 DEF mend, pa, base
    <3>2. minus(pa, base) = kPageSize * i
      BY <1>2, <2>2, <3>1, NoWrap DEF pa
    <3>3. (kPageSize * i + 0) \div kPageSize = i
      BY <1>1, DivModUnique
    <3>4. kPageSize * i + 0 = kPageSize * i
      BY <2>2
    <3> QED BY <3>2, <3>3, <3>4
  <2>8. i \in IndexRange(base, start, end)
    BY <2>5, <2>6, <2>7 DEF IndexRange
  <2> QED BY <1>6, <1>7, <2>1, <2>4, <2>8
<1> QED BY <1>9, <1>10
-----------------------------------------------------------------------------
(* The inductive invariant. *)

Pages == 0..(g_total_pages - 1)

(* pmm_init has not run. *)
Fresh ==
  /\ used = {} /\ g_managed_base = 0 /\ g_total_pages = 0 /\ g_free_pages = 0
  /\ owned = {} /\ config = NULL /\ pool = {}

(* The managed pages are whole pages of the range asked for. *)
Inside(base, total, m) ==
  /\ base \in Addr /\ is_page_aligned(base)
  /\ m.base <= base
  /\ total \in 0..kMaxManagedPages
  /\ total > 0 => base + kPageSize * total <= m.base + m.size

Marked == used \subseteq Bits /\ g_free_pages = Cardinality(Bits \ used)

(* A page of the pool is free or owned, and clear of reserved memory.      *)
(* mark_free_index finds its bit again: that is so for one page of each    *)
(* word only, the one that pmm_init has freed.                             *)
Accounted ==
  /\ owned \cup pool \subseteq {index_to_pa(i) : i \in Pages}
  /\ \A i \in Pages :
       /\ index_to_pa(i) \in pool <=> index_to_pa(i) \in owned \/ i \notin used
       /\ index_to_pa(i) \in owned => i \in used
       /\ index_to_pa(i) \in pool =>
            /\ free_bit(i) = i
            /\ \A n \in DOMAIN config.reserved :
                 ~Overlaps(index_to_pa(i), config.reserved[n])

Configured ==
  /\ config.managed \in PhysicalRange
  /\ Inside(g_managed_base, g_total_pages, config.managed)
  /\ Marked /\ Accounted

PInv == Fresh \/ Configured

-----------------------------------------------------------------------------
(* Where a managed page lies. *)
LEMMA PageAt ==
  ASSUME NEW m \in PhysicalRange, NEW base, NEW total, Inside(base, total, m),
         NEW i \in 0..(total - 1)
  PROVE  /\ plus(base, i * kPageSize) = base + kPageSize * i
         /\ base + kPageSize * i \in Addr
         /\ (base + kPageSize * i) % kPageSize = 0
         /\ m.base <= base + kPageSize * i
         /\ base + kPageSize * i + kPageSize <= m.base + m.size
         /\ minus(base + kPageSize * i, base) \div kPageSize = i
         /\ i \in Bits
<1>1. /\ kPageSize \in Nat \ {0} /\ AddrSpace \in Nat \ {0} /\ kMaxManagedPages \in Nat
      /\ m.base \in Nat /\ m.size \in Nat /\ m.base + m.size + kPageSize <= AddrSpace
      /\ total \in Nat /\ total > 0 /\ total <= kMaxManagedPages /\ i \in Nat /\ i + 1 <= total
      /\ base \in Nat
  BY PageAssumption, PmmAssumption DEF PhysicalRange, Addr, Inside
<1>2. /\ kPageSize * i \in Nat /\ kPageSize * (i + 1) <= kPageSize * total
      /\ kPageSize * (i + 1) = kPageSize * i + kPageSize /\ kPageSize * total \in Nat
      /\ i * kPageSize = kPageSize * i
  BY <1>1
<1>3. base + kPageSize * total <= m.base + m.size
  BY <1>1 DEF Inside
<1>4. base + kPageSize * i + kPageSize <= m.base + m.size /\ base + kPageSize * i < AddrSpace
  BY <1>1, <1>2, <1>3
<1>5. plus(base, i * kPageSize) = base + kPageSize * i
      /\ minus(base + kPageSize * i, base) = kPageSize * i
  BY <1>1, <1>2, <1>4, NoWrap
<1>6. (kPageSize * i + 0) \div kPageSize = i /\ kPageSize * i + 0 = kPageSize * i
  BY <1>1, <1>2, DivModUnique
<1>7. (base + kPageSize * i) % kPageSize = 0
  <2>1. PICK q \in Nat : base = kPageSize * q
    BY <1>1, AlignedIsMultiple DEF Inside
  <2>2. base + kPageSize * i = kPageSize * (q + i) + 0 /\ q + i \in Nat
    BY <1>1, <2>1
  <2>3. 0 \in 0..(kPageSize - 1)
    BY <1>1
  <2> DEFINE n == q + i
  <2>4. n \in Nat
    BY <2>2
  <2> HIDE DEF n
  <2>5. (kPageSize * n + 0) % kPageSize = 0
    BY <1>1, <2>3, <2>4, DivModUnique
  <2> QED BY <2>2, <2>5 DEF n
<1>8. m.base <= base + kPageSize * i /\ base + kPageSize * i \in Addr
  BY <1>1, <1>2, <1>4 DEF Inside, Addr
<1>9. i \in Bits
  BY <1>1, BitsCover
<1> QED BY <1>4, <1>5, <1>6, <1>7, <1>8, <1>9

LEMMA Injective ==
  ASSUME NEW m \in PhysicalRange, NEW base, NEW total, Inside(base, total, m),
         NEW i \in 0..(total - 1), NEW j \in 0..(total - 1),
         plus(base, i * kPageSize) = plus(base, j * kPageSize)
  PROVE  i = j
<1>1. base + kPageSize * i = base + kPageSize * j
  BY PageAt
<1>2. minus(base + kPageSize * i, base) \div kPageSize = i
  BY PageAt
<1>3. minus(base + kPageSize * j, base) \div kPageSize = j
  BY PageAt
<1> QED BY <1>1, <1>2, <1>3, Zenon

(* The page that mark_free_index frees in a word is its own. *)
LEMMA FreeBit ==
  ASSUME NEW j \in Nat
  PROVE  free_bit(j) \in Nat /\ free_bit(free_bit(j)) = free_bit(j)
<1> DEFINE w == j \div kBitsPerWord
           o == w % kBitsPerWord
<1>1. kBitsPerWord \in Nat \ {0}
  BY PmmAssumption
<1>2. w \in Nat
  BY <1>1, DivMod
<1>3. o \in 0..(kBitsPerWord - 1)
  BY <1>1, <1>2, DivMod
<1>4. free_bit(j) = w * kBitsPerWord + o
  BY DEF free_bit, bit, word_index
<1> HIDE DEF w, o
<1>5. w * kBitsPerWord + o = kBitsPerWord * w + o /\ kBitsPerWord * w + o \in Nat
  BY <1>1, <1>2, <1>3
<1>6. (kBitsPerWord * w + o) \div kBitsPerWord = w
  BY <1>1, <1>2, <1>3, DivModUnique
<1>7. word_index(free_bit(j)) = w
  BY <1>4, <1>5, <1>6, Zenon DEF word_index
<1>8. free_bit(free_bit(j)) = w * kBitsPerWord + o
  BY <1>7 DEF free_bit, bit, o
<1> QED BY <1>4, <1>5, <1>8

-----------------------------------------------------------------------------
(* Marking pages moves the counter by the number of bits that change, so   *)
(* that the floor at zero is never what keeps it from going below.         *)
LEMMA MarkUsed ==
  ASSUME NEW bits \in SUBSET Bits, NEW pages \in SUBSET Bits
  PROVE  mark_used(bits, Cardinality(Bits \ bits), pages) =
           [bits |-> bits \cup pages, free |-> Cardinality(Bits \ (bits \cup pages))]
<1> DEFINE new  == {used_bit(i) : i \in pages} \ bits
           free == Cardinality(Bits \ bits)
           n    == Cardinality(new)
<1>1. new = pages \ bits
  <2>1. \A i \in pages : used_bit(i) = i
    <3>1. Bits \subseteq Nat
      BY DEF Bits
    <3> QED BY <3>1, UsedBit
  <2> QED BY <2>1
<1>2. IsFiniteSet(Bits \ bits) /\ IsFiniteSet(new) /\ free \in Nat /\ n \in Nat /\ n <= free
  <2>1. IsFiniteSet(Bits \ bits) /\ new \subseteq Bits \ bits
    BY <1>1, BitsCover, FS_Subset
  <2> QED BY <2>1, FS_Subset, FS_CardinalityType
<1>3. Cardinality((Bits \ bits) \ new) = free - n
  <2>1. (Bits \ bits) \cap new = new
    BY <1>1
  <2> QED BY <1>2, <2>1, FS_Difference
<1>4. (Bits \ bits) \ new = Bits \ (bits \cup pages) /\ bits \cup new = bits \cup pages
  BY <1>1
<1>5. mark_used(bits, free, pages) = [bits |-> bits \cup new, free |-> IF n < free THEN free - n ELSE 0]
  BY DEF mark_used
<1> HIDE DEF new, free, n
<1>6. (IF n < free THEN free - n ELSE 0) = free - n
  BY <1>2
<1>7. mark_used(bits, free, pages) = [bits |-> bits \cup pages, free |-> Cardinality(Bits \ (bits \cup pages))]
  BY <1>3, <1>4, <1>5, <1>6
<1> QED BY <1>7 DEF free

LEMMA MarkFree ==
  ASSUME NEW bits \in SUBSET Bits, NEW pages
  PROVE  LET left == bits \ {free_bit(i) : i \in pages}
         IN mark_free(bits, Cardinality(Bits \ bits), pages) =
              [bits |-> left, free |-> Cardinality(Bits \ left)]
<1> DEFINE left    == bits \ {free_bit(i) : i \in pages}
           cleared == {free_bit(i) : i \in pages} \cap bits
           free    == Cardinality(Bits \ bits)
<1>1. left = bits \ cleared /\ Bits \ left = (Bits \ bits) \cup cleared
      /\ (Bits \ bits) \cap cleared = {} /\ cleared \subseteq Bits
  OBVIOUS
<1>2. IsFiniteSet(Bits \ bits) /\ IsFiniteSet(cleared)
  BY <1>1, BitsCover, FS_Subset
<1>3. Cardinality((Bits \ bits) \cup cleared) = free + Cardinality(cleared)
  <2>1. /\ Cardinality((Bits \ bits) \cup cleared) =
             free + Cardinality(cleared) - Cardinality((Bits \ bits) \cap cleared)
        /\ free \in Nat /\ Cardinality(cleared) \in Nat
    BY <1>2, FS_Union, FS_CardinalityType
  <2>2. Cardinality((Bits \ bits) \cap cleared) = 0
    BY <1>1, FS_EmptySet
  <2> QED BY <2>1, <2>2
<1>4. mark_free(bits, free, pages) = [bits |-> bits \ cleared, free |-> free + Cardinality(cleared)]
  BY DEF mark_free
<1> HIDE DEF left, cleared, free
<1>5. mark_free(bits, free, pages) = [bits |-> left, free |-> Cardinality(Bits \ left)]
  BY <1>1, <1>3, <1>4
<1> QED BY <1>5 DEF left, free

-----------------------------------------------------------------------------
(* The range pmm_init cuts out of the one it is given. *)
LEMMA InitInside ==
  ASSUME NEW m \in PhysicalRange
  PROVE  LET base  == align_up(m.base)
             end   == align_down(plus(m.base, m.size))
             total == IF end <= base THEN 0 ELSE capped((end - base) \div kPageSize)
         IN Inside(base, total, m)
<1> DEFINE base  == align_up(m.base)
           end   == align_down(plus(m.base, m.size))
           count == (end - base) \div kPageSize
           total == IF end <= base THEN 0 ELSE capped(count)
<1> SUFFICES Inside(base, total, m)
  OBVIOUS
<1>1. /\ kPageSize \in Nat \ {0} /\ AddrSpace \in Nat \ {0} /\ kMaxManagedPages \in Nat \ {0}
      /\ m.base \in Nat /\ m.size \in Nat /\ m.base + m.size + kPageSize <= AddrSpace
  BY PageAssumption, PmmAssumption DEF PhysicalRange, Addr
<1>2. m.base + kPageSize <= AddrSpace
  BY <1>1
<1>3. /\ base \in Addr /\ m.base <= base /\ \E n \in Nat : base = kPageSize * n
  BY <1>1, <1>2, AlignUp
<1>4. base \in Nat /\ is_page_aligned(base)
  <2>1. Addr \subseteq Nat
    BY <1>1 DEF Addr
  <2> HIDE DEF base
  <2>2. base \in Nat
    BY <1>3, <2>1
  <2> QED BY <1>3, <2>2, AlignedIsMultiple
<1>5. end \in Nat /\ end <= m.base + m.size
  <2>1. plus(m.base, m.size) = m.base + m.size /\ m.base + m.size \in Nat
    BY <1>1, NoWrap
  <2> QED BY <2>1, AlignDown
<1> HIDE DEF base, end
<1>6. CASE end <= base
  BY <1>1, <1>3, <1>4, <1>6 DEF Inside
<1>7. CASE ~(end <= base)
  <2>1. end - base \in Nat
    BY <1>4, <1>5, <1>7
  <2>2. /\ count \in Nat /\ (end - base) % kPageSize \in 0..(kPageSize - 1)
        /\ end - base = kPageSize * count + ((end - base) % kPageSize)
    BY <1>1, <2>1, DivMod
  <2> HIDE DEF count
  <2>3. total \in 0..kMaxManagedPages /\ total <= count
    BY <1>1, <1>7, <2>2 DEF capped
  <2> HIDE DEF total
  <2>4. kPageSize * total <= kPageSize * count
    BY <1>1, <2>2, <2>3, Multiples
  <2>5. kPageSize * total \in Nat /\ kPageSize * count \in Nat
    BY <1>1, <2>2, <2>3
  <2>6. base + kPageSize * total <= m.base + m.size
    BY <1>1, <1>4, <1>5, <2>1, <2>2, <2>4, <2>5
  <2> QED BY <1>3, <1>4, <2>3, <2>6 DEF Inside
<1> QED BY <1>6, <1>7

LEMMA InitKeepsInv ==
  ASSUME NEW m \in PhysicalRange, NEW l, \A i \in DOMAIN l : l[i] \in PhysicalRange,
         PmmInit(m, l)
  PROVE  PInv'
<1> DEFINE base  == g_managed_base'
           total == g_total_pages'
           freed == Bits \ {free_bit(i) : i \in 0..(total - 1)}
           held  == UNION {reserve_range(base, total, l[i]) : i \in DOMAIN l}
<1>1. Inside(base, total, m)
  <2>1. /\ g_managed_base' = align_up(m.base)
        /\ g_total_pages' = IF align_down(plus(m.base, m.size)) <= align_up(m.base) THEN 0
             ELSE capped((align_down(plus(m.base, m.size)) - align_up(m.base)) \div kPageSize)
    BY DEF PmmInit, pmm_init
  <2> QED BY <2>1, InitInside
<1>2. /\ base \in Nat /\ total \in Nat /\ total <= kMaxManagedPages
      /\ \E q \in Nat : base = kPageSize * q
  <2>1. base \in Nat /\ total \in Nat /\ total <= kMaxManagedPages
    BY <1>1, PageAssumption, PmmAssumption DEF Inside, Addr
  <2> QED BY <1>1, <2>1, AlignedIsMultiple DEF Inside
<1>3. \A i \in DOMAIN l :
        /\ reserve_range(base, total, l[i]) \subseteq 0..(total - 1)
        /\ \A j \in 0..(total - 1) :
             Overlaps(base + kPageSize * j, l[i]) => j \in reserve_range(base, total, l[i])
  <2> SUFFICES ASSUME NEW i \in DOMAIN l
               PROVE  /\ reserve_range(base, total, l[i]) \subseteq 0..(total - 1)
                      /\ \A j \in 0..(total - 1) :
                           Overlaps(base + kPageSize * j, l[i])
                             => j \in reserve_range(base, total, l[i])
    OBVIOUS
  <2>1. CASE total = 0
    <3>1. reserve_range(base, total, l[i]) = {}
      BY <2>1 DEF reserve_range
    <3>2. 0..(total - 1) = {}
      BY <2>1
    <3> QED BY <3>1, <3>2
  <2>2. CASE total # 0
    <3>1. PICK q \in Nat : base = kPageSize * q
      BY <1>2
    <3>2. kPageSize * q + kPageSize * total < AddrSpace /\ total \in Nat \ {0}
      <4>1. /\ kPageSize \in Nat \ {0} /\ AddrSpace \in Nat
            /\ m.base \in Nat /\ m.size \in Nat /\ m.base + m.size + kPageSize <= AddrSpace
        BY PageAssumption DEF PhysicalRange, Addr
      <4>2. base + kPageSize * total <= m.base + m.size /\ total > 0
        BY <1>1, <1>2, <2>2 DEF Inside
      <4> HIDE DEF base, total
      <4>3. kPageSize * total \in Nat
        BY <1>2, <4>1
      <4> QED BY <1>2, <3>1, <4>1, <4>2, <4>3
    <3> QED BY <3>1, <3>2, ReserveCovers
  <2> QED BY <2>1, <2>2
<1>4. freed \in SUBSET Bits /\ held \subseteq 0..(total - 1) /\ held \in SUBSET Bits
  <2>1. held \subseteq 0..(total - 1)
    BY <1>3
  <2> HIDE DEF held, total
  <2>2. 0..(total - 1) \subseteq 0..(kMaxManagedPages - 1)
    BY <1>2, PmmAssumption
  <2>3. 0..(kMaxManagedPages - 1) \subseteq Bits
    BY BitsCover
  <2> QED BY <2>1, <2>2, <2>3
<1>5. mark_free(Bits, 0, 0..(total - 1)) = [bits |-> freed, free |-> Cardinality(Bits \ freed)]
  <2>1. Cardinality(Bits \ Bits) = 0
    BY FS_EmptySet
  <2>2. mark_free(Bits, Cardinality(Bits \ Bits), 0..(total - 1))
          = [bits |-> freed, free |-> Cardinality(Bits \ freed)]
    BY MarkFree
  <2> QED BY <2>1, <2>2
<1>6. mark_used(freed, Cardinality(Bits \ freed), held)
        = [bits |-> freed \cup held, free |-> Cardinality(Bits \ (freed \cup held))]
  BY <1>4, MarkUsed
<1>7. /\ used' = freed \cup held /\ g_free_pages' = Cardinality(Bits \ (freed \cup held))
      /\ owned' = {} /\ config' = [managed |-> m, reserved |-> l] /\ pool' = FreePages'
  <2>1. LET f == mark_free(Bits, 0, 0..(total - 1))
            d == mark_used(f.bits, f.free, held)
        IN used' = d.bits /\ g_free_pages' = d.free
    BY DEF PmmInit, pmm_init
  <2> HIDE DEF freed, held, total, base
  <2>2. LET d == mark_used(freed, Cardinality(Bits \ freed), held)
        IN used' = d.bits /\ g_free_pages' = d.free
    BY <1>5, <2>1
  <2>3. used' = freed \cup held /\ g_free_pages' = Cardinality(Bits \ (freed \cup held))
    BY <1>6, <2>2
  <2> QED BY <2>3 DEF PmmInit
<1>8. Marked'
  BY <1>4, <1>7 DEF Marked
<1>9. \A i \in 0..(total - 1) : /\ used_index(i)' <=> i \in used'
                                /\ index_to_pa(i)' = plus(base, i * kPageSize)
                                /\ index_to_pa(i)' = base + kPageSize * i /\ i \in Bits
  BY <1>1, PageAt, UsedBit DEF used_index, index_to_pa
<1>10. \A i \in 0..(total - 1) : index_to_pa(i)' \in pool' <=> i \notin used'
  <2>1. pool' = {index_to_pa(j)' : j \in {k \in 0..(total - 1) : ~used_index(k)'}}
    BY <1>7 DEF FreePages
  <2>2. ASSUME NEW i \in 0..(total - 1), NEW j \in 0..(total - 1),
               index_to_pa(i)' = index_to_pa(j)'
        PROVE  i = j
    BY <1>1, <1>9, <2>2, Injective
  <2> QED BY <1>9, <2>1, <2>2
<1>11. Accounted'
  <2>1. (owned \cup pool)' \subseteq {index_to_pa(i)' : i \in 0..(total - 1)}
    BY <1>7 DEF FreePages
  <2>2. ASSUME NEW i \in 0..(total - 1), i \notin used'
        PROVE  /\ free_bit(i) = i
               /\ \A n \in DOMAIN l : ~Overlaps(index_to_pa(i)', l[n])
    <3>1. i \in Bits /\ i \notin freed /\ i \notin held
      BY <1>7, <1>9, <2>2
    <3>2. PICK j \in 0..(total - 1) : i = free_bit(j)
      BY <3>1
    <3>3. free_bit(i) = i
      BY <3>2, FreeBit
    <3> QED BY <1>3, <1>9, <3>1, <3>3
  <2>3. config'.reserved = l
    BY <1>7
  <2> QED BY <1>7, <1>10, <2>1, <2>2, <2>3 DEF Accounted, Pages, Overlaps, free_bit
<1>12. config'.managed = m
  BY <1>7
<1> QED BY <1>1, <1>8, <1>11, <1>12 DEF PInv, Configured, Inside

(* What the invariant says about a managed page. *)
LEMMA PageFacts ==
  ASSUME Configured
  PROVE  /\ \A i \in Pages :
              /\ i \in Nat /\ i \in Bits /\ (used_index(i) <=> i \in used)
              /\ pa_to_index(index_to_pa(i)) = i
         /\ \A i, j \in Pages : index_to_pa(i) = index_to_pa(j) => i = j
<1>1. config.managed \in PhysicalRange /\ Inside(g_managed_base, g_total_pages, config.managed)
  BY DEF Configured
<1>2. ASSUME NEW i \in Pages
      PROVE  /\ i \in Nat /\ i \in Bits /\ (used_index(i) <=> i \in used)
             /\ pa_to_index(index_to_pa(i)) = i
  <2>1. i \in Nat /\ i \in 0..(g_total_pages - 1)
    BY DEF Pages
  <2> QED BY <1>1, <2>1, PageAt, UsedBit DEF used_index, pa_to_index, index_to_pa
<1>3. ASSUME NEW i \in Pages, NEW j \in Pages, index_to_pa(i) = index_to_pa(j)
      PROVE  i = j
  BY <1>1, <1>3, Injective DEF Pages, index_to_pa
<1> QED BY <1>2, <1>3

LEMMA AllocKeepsInv ==
  ASSUME Configured, Alloc
  PROVE  Configured'
<1>1. PICK i \in Pages : /\ FirstFree(i) /\ alloc_page(i)
                         /\ owned' = owned \cup {index_to_pa(i)}
  BY DEF Alloc, Pages
<1>2. UNCHANGED <<g_managed_base, g_total_pages, config, pool>> /\ Pages' = Pages
  BY DEF Alloc, Pages
<1>3. i \notin used /\ i \in Bits /\ i \in Nat
  BY <1>1, PageFacts DEF FirstFree
<1>4. used' = used \cup {i} /\ g_free_pages' = Cardinality(Bits \ (used \cup {i}))
  <2>1. used \in SUBSET Bits /\ {i} \in SUBSET Bits /\ g_free_pages = Cardinality(Bits \ used)
    BY <1>3 DEF Configured, Marked
  <2>2. mark_used(used, g_free_pages, {i})
          = [bits |-> used \cup {i}, free |-> Cardinality(Bits \ (used \cup {i}))]
    BY <2>1, MarkUsed
  <2> QED BY <1>1, <2>2 DEF alloc_page
<1>5. Marked'
  BY <1>3, <1>4 DEF Configured, Marked
<1>6. \A j \in Pages : index_to_pa(j)' = index_to_pa(j)
  BY <1>2 DEF index_to_pa
<1>7. Accounted'
  <2>1. index_to_pa(i) \in pool
    BY <1>1, <1>3 DEF Configured, Accounted
  <2>2. (owned \cup pool)' \subseteq {index_to_pa(j) : j \in Pages}
    BY <1>1, <1>2 DEF Configured, Accounted
  <2>3. ASSUME NEW j \in Pages
        PROVE  /\ index_to_pa(j) \in pool <=> index_to_pa(j) \in owned' \/ j \notin used'
               /\ index_to_pa(j) \in owned' => j \in used'
    BY <1>1, <1>4, <2>1, PageFacts DEF Configured, Accounted
  <2>4. ASSUME NEW j \in Pages, index_to_pa(j) \in pool
        PROVE  /\ free_bit(j) = j
               /\ \A n \in DOMAIN config.reserved : ~Overlaps(index_to_pa(j), config.reserved[n])
    BY <2>4 DEF Configured, Accounted
  <2> QED BY <1>2, <1>6, <2>2, <2>3, <2>4 DEF Accounted
<1> QED BY <1>2, <1>5, <1>7 DEF Configured

LEMMA FreeKeepsInv ==
  ASSUME Configured, NEW pa \in owned, Free(pa)
  PROVE  Configured'
<1>1. PICK i \in Pages : pa = index_to_pa(i)
  BY DEF Configured, Accounted
<1>2. /\ free_page(pa) /\ owned' = owned \ {pa} /\ Pages' = Pages
      /\ UNCHANGED <<g_managed_base, g_total_pages, config, pool>>
  BY DEF Free, Pages
<1>3. /\ pa_to_index(pa) = i /\ i \in Bits /\ i \in used /\ pa \in pool
      /\ free_bit(i) = i
  BY <1>1, PageFacts DEF Configured, Accounted
<1>4. used' = used \ {i} /\ g_free_pages' = Cardinality(Bits \ (used \ {i}))
  <2>1. used \in SUBSET Bits /\ g_free_pages = Cardinality(Bits \ used)
    BY DEF Configured, Marked
  <2>2. {free_bit(j) : j \in {i}} = {i}
    BY <1>3
  <2>3. mark_free(used, g_free_pages, {i}) =
          [bits |-> used \ {i}, free |-> Cardinality(Bits \ (used \ {i}))]
    BY <2>1, <2>2, MarkFree
  <2> QED BY <1>2, <1>3, <2>3 DEF free_page
<1>5. Marked'
  BY <1>4 DEF Configured, Marked
<1>6. \A j \in Pages : index_to_pa(j)' = index_to_pa(j)
  BY <1>2 DEF index_to_pa
<1>7. Accounted'
  <2>2. (owned \cup pool)' \subseteq {index_to_pa(j) : j \in Pages}
    BY <1>2 DEF Configured, Accounted
  <2>3. ASSUME NEW j \in Pages
        PROVE  /\ index_to_pa(j) \in pool <=> index_to_pa(j) \in owned' \/ j \notin used'
               /\ index_to_pa(j) \in owned' => j \in used'
    BY <1>1, <1>2, <1>3, <1>4, PageFacts DEF Configured, Accounted
  <2>4. ASSUME NEW j \in Pages, index_to_pa(j) \in pool
        PROVE  /\ free_bit(j) = j
               /\ \A n \in DOMAIN config.reserved : ~Overlaps(index_to_pa(j), config.reserved[n])
    BY <2>4 DEF Configured, Accounted
  <2> QED BY <1>2, <1>6, <2>2, <2>3, <2>4 DEF Accounted
<1> QED BY <1>2, <1>5, <1>7 DEF Configured

LEMMA NextKeepsInv ==
  ASSUME PInv, [Next]_vars
  PROVE  PInv'
<1>1. CASE UNCHANGED vars \/ AllocFails \/ \E pa \in Addr : FreeFails(pa)
  <2>1. UNCHANGED <<used, g_managed_base, g_total_pages, g_free_pages, owned, config, pool>>
    BY <1>1 DEF vars, AllocFails, FreeFails
  <2> QED BY <2>1 DEF PInv, Fresh, Configured, Inside, Marked, Accounted, Pages, index_to_pa
<1>2. CASE \E m \in ManagedRanges, l \in ReservedLists : PmmInit(m, l)
  BY <1>2, PmmAssumption, InitKeepsInv
<1>3. CASE Alloc
  <2>1. Configured
    BY <1>3 DEF Alloc, PInv, Fresh
  <2> QED BY <1>3, <2>1, AllocKeepsInv DEF PInv
<1>4. CASE \E pa \in owned : Free(pa)
  <2>1. Configured
    BY <1>4 DEF PInv, Fresh
  <2> QED BY <1>4, <2>1, FreeKeepsInv DEF PInv
<1> QED BY <1>1, <1>2, <1>3, <1>4 DEF Next

LEMMA InvHolds == Spec => []PInv
<1>1. Init => PInv
  BY DEF Init, PInv, Fresh
<1> QED BY <1>1, NextKeepsInv, PTL DEF Spec

-----------------------------------------------------------------------------
(* The allocator in use: page tables are drawn from it and other code      *)
(* allocates and frees beside them.                                        *)

LEMMA FreeAreMarkedFree ==
  ASSUME Configured
  PROVE  FreePages = {index_to_pa(i) : i \in {j \in Pages : j \notin used}}
BY PageFacts DEF FreePages, Pages

(* Calls of alloc_page that return a set of free pages. *)
LEMMA DrawKeepsInv ==
  ASSUME PInv, NEW pages \in SUBSET FreePages, Draw(pages)
  PROVE  PInv'
<1> DEFINE drawn == {pa_to_index(pa) : pa \in pages}
<1>1. /\ used' = mark_used(used, g_free_pages, drawn).bits
      /\ g_free_pages' = mark_used(used, g_free_pages, drawn).free
      /\ owned' = owned \cup pages
      /\ UNCHANGED <<g_managed_base, g_total_pages, config, pool>> /\ Pages' = Pages
  BY DEF Draw, Pages
<1>2. CASE Fresh
  <2>1. pages = {}
    BY <1>2 DEF Fresh, FreePages
  <2>2. drawn = {} /\ {used_bit(i) : i \in {}} = {}
    BY <2>1
  <2>3. mark_used({}, 0, {}) = [bits |-> {}, free |-> 0]
    <3>1. Cardinality({}) = 0 /\ {used_bit(i) : i \in {}} \ {} = {}
      BY FS_EmptySet
    <3> QED BY <3>1 DEF mark_used
  <2> HIDE DEF drawn
  <2>4. used' = {} /\ g_free_pages' = 0
    BY <1>1, <1>2, <2>2, <2>3 DEF Fresh
  <2> QED BY <1>1, <1>2, <2>1, <2>4 DEF PInv, Fresh
<1>3. CASE Configured
  <2>1. \A pa \in pages : \E i \in Pages : pa = index_to_pa(i) /\ i \notin used
    BY <1>3, FreeAreMarkedFree
  <2>2. /\ drawn \subseteq Pages /\ drawn \in SUBSET Bits /\ drawn \cap used = {}
        /\ \A i \in Pages : index_to_pa(i) \in pages <=> i \in drawn
    <3>1. \A pa \in pages : \E i \in Pages : /\ pa = index_to_pa(i) /\ i \notin used
                                             /\ pa_to_index(pa) = i /\ i \in Bits
      BY <1>3, <2>1, PageFacts
    <3>2. ASSUME NEW i \in Pages PROVE index_to_pa(i) \in pages <=> i \in drawn
      <4>1. pa_to_index(index_to_pa(i)) = i
        BY <1>3, PageFacts
      <4>2. ASSUME i \in drawn PROVE index_to_pa(i) \in pages
        BY <3>1, <4>2
      <4> QED BY <4>1, <4>2
    <3> QED BY <3>1, <3>2
  <2>3. /\ used \in SUBSET Bits /\ g_free_pages = Cardinality(Bits \ used)
    BY <1>3 DEF Configured, Marked
  <2> HIDE DEF drawn
  <2>4. mark_used(used, g_free_pages, drawn) =
          [bits |-> used \cup drawn, free |-> Cardinality(Bits \ (used \cup drawn))]
    BY <2>2, <2>3, MarkUsed
  <2>5. used' = used \cup drawn /\ g_free_pages' = Cardinality(Bits \ (used \cup drawn))
    BY <1>1, <2>4
  <2>6. Marked'
    BY <2>2, <2>3, <2>5 DEF Marked
  <2>7. \A j \in Pages : index_to_pa(j)' = index_to_pa(j)
    BY <1>1 DEF index_to_pa
  <2>8. Accounted'
    <3>1. (owned \cup pool)' \subseteq {index_to_pa(j) : j \in Pages}
      BY <1>1, <1>3, <2>1 DEF Configured, Accounted
    <3>2. ASSUME NEW j \in Pages
          PROVE  /\ index_to_pa(j) \in pool <=> index_to_pa(j) \in owned' \/ j \notin used'
                 /\ index_to_pa(j) \in owned' => j \in used'
      BY <1>1, <1>3, <2>2, <2>5 DEF Configured, Accounted
    <3>3. ASSUME NEW j \in Pages, index_to_pa(j) \in pool
          PROVE  /\ free_bit(j) = j
                 /\ \A n \in DOMAIN config.reserved : ~Overlaps(index_to_pa(j), config.reserved[n])
      BY <1>3, <3>3 DEF Configured, Accounted
    <3> QED BY <1>1, <2>7, <3>1, <3>2, <3>3 DEF Accounted
  <2> QED BY <1>1, <1>3, <2>6, <2>8 DEF PInv, Configured
<1> QED BY <1>2, <1>3 DEF PInv

LEMMA MemNextKeepsInv ==
  ASSUME PInv, [MemNext]_mvars
  PROVE  PInv'
<1>1. CASE UNCHANGED vars
  BY <1>1, NextKeepsInv
<1>2. CASE AllocatorAlone
  BY <1>2, NextKeepsInv DEF AllocatorAlone
<1>3. CASE PlatformPmmInit
  <2>1. PICK image \in Images : PmmInit(kDram, <<image>>)
    BY <1>3 DEF PlatformPmmInit
  <2>2. kDram \in PhysicalRange /\ \A i \in DOMAIN <<image>> : <<image>>[i] \in PhysicalRange
    BY MemoryAssumption
  <2> QED BY <2>1, <2>2, InitKeepsInv
<1>4. CASE AllocRoot
  <2>1. Draw(IF FreePages = {} THEN {} ELSE {Min(FreePages)})
    BY <1>4 DEF AllocRoot
  <2>2. FreePages # {} => Min(FreePages) \in FreePages
    <3>1. FreePages \in SUBSET Nat
      <4>1. CASE Fresh
        BY <4>1 DEF Fresh, FreePages
      <4>2. CASE Configured
        BY <4>2, FreeAreMarkedFree, PageAt, PageAssumption
        DEF Configured, Pages, index_to_pa, Addr
      <4> QED BY <4>1, <4>2 DEF PInv
    <3> QED BY <3>1, Least
  <2> QED BY <2>1, <2>2, DrawKeepsInv
<1>5. CASE MapTurn
  <2>1. PICK l \in loop :
          Draw(FreePages \ P!map_page(g_kernel_page_table, l.cur_va, l.cur_pa, l.flags).avail)
    BY <1>5 DEF MapTurn
  <2> QED BY <2>1, DrawKeepsInv
<1>6. CASE OtherAllocs
  BY <1>6, NextKeepsInv DEF OtherAllocs, Next
<1>7. CASE OtherFrees
  <2>1. PICK pa \in others : Free(pa)
    BY <1>7 DEF OtherFrees
  <2>2. Next
    BY <2>1 DEF Next, Free
  <2> QED BY <2>2, NextKeepsInv
<1>8. CASE MapRegion \/ EnablePaging \/ MapCall \/ UnmapCall \/ OtherWrites
  <2>1. UNCHANGED vars
    BY <1>8 DEF MapRegion, EnablePaging, MapCall, UnmapCall, OtherWrites
  <2> QED BY <2>1, NextKeepsInv
<1> QED BY <1>1, <1>2, <1>3, <1>4, <1>5, <1>6, <1>7, <1>8 DEF MemNext, mvars

LEMMA MemInvHolds == MemSpec => []PInv
<1>1. MemInit => PInv
  BY DEF MemInit, Init, PInv, Fresh
<1> QED BY <1>1, MemNextKeepsInv, PTL DEF MemSpec

-----------------------------------------------------------------------------
(* The allocator alone and as the kernel uses it: *)

(* What the invariant says of owned pages. *)
LEMMA ClearOfReserved == PInv => OwnedAvoidReserved
<1> SUFFICES ASSUME PInv, NEW pa \in owned
             PROVE  /\ is_page_aligned(pa)
                    /\ pa >= config.managed.base
                    /\ pa + kPageSize <= config.managed.base + config.managed.size
                    /\ \A n \in DOMAIN config.reserved : ~Overlaps(pa, config.reserved[n])
  BY DEF OwnedAvoidReserved
<1>1. Configured
  BY DEF PInv, Fresh
<1>2. PICK i \in Pages : pa = index_to_pa(i)
  BY <1>1 DEF Configured, Accounted
<1>3. \A n \in DOMAIN config.reserved : ~Overlaps(pa, config.reserved[n])
  BY <1>1, <1>2 DEF Configured, Accounted
<1>4. /\ pa = g_managed_base + kPageSize * i /\ is_page_aligned(pa)
      /\ config.managed.base <= pa
      /\ pa + kPageSize <= config.managed.base + config.managed.size
  BY <1>1, <1>2, PageAt DEF Configured, Pages, index_to_pa, is_page_aligned
<1>5. pa \in Nat /\ config.managed.base \in Nat
  BY <1>1, <1>2, <1>4, PageAt, PageAssumption DEF Configured, Pages, Addr, PhysicalRange
<1> QED BY <1>3, <1>4, <1>5

(* Every page a caller holds is whole, aligned, inside the managed range   *)
(* and clear of every reserved byte (pmm.cpp:53-100).                      *)
THEOREM OwnedPagesAreClear == (Spec => []OwnedAvoidReserved) /\ (MemSpec => []OwnedAvoidReserved)
<1>1. PInv => OwnedAvoidReserved
  BY ClearOfReserved
<1> QED BY <1>1, InvHolds, MemInvHolds, PTL

(* What it says of the pool. *)
LEMMA Conserved == PInv => PoolConserved
<1> SUFFICES ASSUME PInv PROVE PoolConserved
  OBVIOUS
<1>1. CASE Fresh
  <2>1. FreePages = {}
    BY <1>1 DEF Fresh, FreePages
  <2> QED BY <1>1, <2>1 DEF Fresh, PoolConserved
<1>2. CASE Configured
  <2>1. FreePages = {index_to_pa(i) : i \in {j \in Pages : j \notin used}}
    BY <1>2, PageFacts DEF FreePages, Pages
  <2>2. owned \cup FreePages \subseteq pool /\ pool \subseteq owned \cup FreePages
    BY <1>2, <2>1 DEF Configured, Accounted
  <2>3. owned \cap FreePages = {}
    BY <1>2, <2>1 DEF Configured, Accounted
  <2> QED BY <2>2, <2>3 DEF PoolConserved
<1> QED BY <1>1, <1>2 DEF PInv

(* Nothing is handed out twice, lost or conjured up (pmm.cpp:102-125). *)
THEOREM PagesAreConserved == (Spec => []PoolConserved) /\ (MemSpec => []PoolConserved)
<1>1. PInv => PoolConserved
  BY Conserved
<1> QED BY <1>1, InvHolds, MemInvHolds, PTL

(* The counter never drifts from the bitmap (pmm.cpp:33-51). *)
THEOREM FreeCountIsExact == (Spec => []FreeCountExact) /\ (MemSpec => []FreeCountExact)
<1>1. PInv => FreeCountExact
  BY DEF PInv, Fresh, Configured, Marked, FreeCountExact
<1> QED BY <1>1, InvHolds, MemInvHolds, PTL

(* And of the types. *)
LEMMA PInvTypes == PInv => TypeOK
<1> SUFFICES ASSUME PInv PROVE TypeOK
  OBVIOUS
<1>1. CASE Fresh
  BY <1>1, PageAssumption, PmmAssumption, BitsCover DEF Fresh, TypeOK, Addr
<1>2. CASE Configured
  <2>1. used \subseteq Bits /\ g_managed_base \in Addr /\ g_total_pages \in 0..kMaxManagedPages
    BY <1>2 DEF Configured, Marked, Inside
  <2>2. g_free_pages \in 0..(kBitmapWords * kBitsPerWord)
    <3>1. IsFiniteSet(Bits) /\ IsFiniteSet(Bits \ used) /\ Bits \ used \in SUBSET Bits
      BY BitsCover, FS_Subset
    <3>2. Cardinality(Bits \ used) \in Nat /\ Cardinality(Bits \ used) <= Cardinality(Bits)
      BY <3>1, FS_Subset, FS_CardinalityType
    <3>3. g_free_pages \in Nat /\ g_free_pages <= kBitmapWords * kBitsPerWord
      BY <1>2, <3>2, BitsCover DEF Configured, Marked
    <3> QED BY <3>3, BitsCover
  <2>3. \A i \in Pages : index_to_pa(i) \in Addr
    BY <1>2, PageAt DEF Configured, Pages, index_to_pa
  <2>4. owned \subseteq Addr /\ pool \subseteq Addr
    BY <1>2, <2>3 DEF Configured, Accounted
  <2> QED BY <2>1, <2>2, <2>4 DEF TypeOK
<1> QED BY <1>1, <1>2 DEF PInv

(* The bitmap, the counters and the pages keep their types. *)
THEOREM TypesOfPmm == (Spec => []TypeOK) /\ (MemSpec => []TypeOK)
<1>1. PInv => TypeOK
  BY PInvTypes
<1> QED BY <1>1, InvHolds, MemInvHolds, PTL

-----------------------------------------------------------------------------
(* The page tables in pages of the allocator: what PageTablesProofs shows  *)
(* holds of them, since P's operators are the ones it is about.            *)

PT == INSTANCE PageTablesProofs WITH
        free <- FreePages, pool <- pool \ others, Pools <- SUBSET DramPages

LEMMA Assumed ==
  PT!PageAssumption /\ PT!TableAssumption /\ PT!CallAssumption /\ PT!KernelAssumption
<1>1. PT!PageAssumption
  BY PageAssumption DEF PT!PageAssumption
<1>2. PT!TableAssumption
  BY LayoutAssumption DEF PT!TableAssumption, P!TableAssumption, PT!Frames, P!Frames,
    PT!nullptr, P!nullptr, PT!VAddr, P!VAddr, PT!VSize, P!VSize, PT!Addr, P!Addr,
    PT!is_page_aligned, P!is_page_aligned, PT!Pte, P!Pte, PT!Flag, P!Flag
<1>3. PT!CallAssumption
  BY LayoutAssumption DEF PT!CallAssumption, P!CallAssumption, PT!VSize, P!VSize,
    PT!VAddr, P!VAddr, PT!nullptr, P!nullptr, PT!Regions, P!Regions,
    PT!map_device_region, P!map_device_region, PT!align_down, P!align_down,
    PT!align_up, P!align_up, PT!plus, P!plus, PT!Device, P!Device, PT!Ram, P!Ram
<1>4. PT!KernelAssumption
  BY LayoutAssumption DEF PT!KernelAssumption, P!KernelAssumption, PT!VSize, P!VSize,
    PT!Regions, P!Regions, PT!map_device_region, P!map_device_region,
    PT!align_down, P!align_down, PT!align_up, P!align_up, PT!plus, P!plus,
    PT!Device, P!Device, PT!Ram, P!Ram, PT!range_end, P!range_end,
    PT!is_page_aligned, P!is_page_aligned
<1> QED BY <1>1, <1>2, <1>3, <1>4

LEMMA SameConstants ==
  /\ P!nullptr = PT!nullptr /\ P!Index = PT!Index /\ P!ZeroPte = PT!ZeroPte
  /\ P!Span = PT!Span /\ P!Ram = PT!Ram /\ P!Device = PT!Device
BY DEF P!nullptr, PT!nullptr, P!Index, PT!Index, P!ZeroPte, PT!ZeroPte,
       P!Span, PT!Span, P!Ram, PT!Ram, P!Device, PT!Device

LEMMA SameArithmetic ==
  /\ \A a, b : P!plus(a, b) = PT!plus(a, b)
  /\ \A a : /\ P!is_page_aligned(a) = PT!is_page_aligned(a)
            /\ P!align_down(a) = PT!align_down(a)
            /\ P!page_offset(a) = PT!page_offset(a)
BY DEF P!plus, PT!plus, P!is_page_aligned, PT!is_page_aligned, P!align_down, PT!align_down,
       P!page_offset, PT!page_offset

LEMMA SameAlignUp == \A a : P!align_up(a) = PT!align_up(a)
BY SameArithmetic DEF P!align_up, PT!align_up

LEMMA SameRangeEnd == \A a, b : P!range_end(a, b) = PT!range_end(a, b)
BY SameArithmetic, SameAlignUp DEF P!range_end, PT!range_end

LEMMA SameAligned == \A a, b : P!aligned(a, b) = PT!aligned(a, b)
BY SameArithmetic DEF P!aligned, PT!aligned

LEMMA SameIndex == \A va, n : P!vpn_index(va, n) = PT!vpn_index(va, n)
BY SameConstants DEF P!vpn_index, PT!vpn_index

LEMMA SameEntries ==
  /\ \A pa, flags : P!make_pte(pa, flags) = PT!make_pte(pa, flags)
  /\ \A e : /\ P!pte_to_pa(e) = PT!pte_to_pa(e)
            /\ P!pte_valid(e) = PT!pte_valid(e) /\ P!pte_leaf(e) = PT!pte_leaf(e)
BY DEF P!make_pte, PT!make_pte, P!pte_to_pa, PT!pte_to_pa, P!pte_valid, PT!pte_valid,
       P!pte_leaf, PT!pte_leaf

LEMMA SameAlloc == \A T, A : P!alloc_page_table(T, A) = PT!alloc_page_table(T, A)
<1>1. \A T, page : P!zero_page(T, page) = PT!zero_page(T, page)
  BY SameConstants DEF P!zero_page, PT!zero_page
<1>2. \A S : P!Min(S) = PT!Min(S)
  BY DEF P!Min, PT!Min
<1> QED BY <1>1, <1>2 DEF P!alloc_page_table, PT!alloc_page_table

LEMMA SameDescend == \A w, va, n : P!Descend(w, va, n) = PT!Descend(w, va, n)
<1> TAKE w, va, n
<1> DEFINE i     == P!vpn_index(va, n)
           pte   == w.tables[w.table][i]
           new   == P!alloc_page_table(w.tables, w.avail)
           valid == P!pte_valid(pte)
           leaf  == P!pte_leaf(pte)
           link  == P!make_pte(new.table, {"V"})
           below == P!pte_to_pa(pte)
           D == IF ~w.ok \/ (~valid /\ w.avail = {}) \/ (valid /\ leaf)
                THEN [w EXCEPT !.ok = FALSE]
                ELSE IF valid
                THEN [w EXCEPT !.table = below]
                ELSE [ok |-> TRUE, avail |-> new.avail, table |-> new.table,
                      tables |-> [new.tables EXCEPT ![w.table][i] = link]]
<1>1. P!Descend(w, va, n) = D
  BY DEF P!Descend
<1>2. PT!vpn_index(va, n) = i /\ PT!alloc_page_table(w.tables, w.avail) = new
  BY SameIndex, SameAlloc
<1>3. /\ PT!pte_valid(pte) = valid /\ PT!pte_leaf(pte) = leaf /\ PT!pte_to_pa(pte) = below
      /\ PT!make_pte(new.table, {"V"}) = link
  BY SameEntries
<1> HIDE DEF i, new, valid, leaf, link, below
<1>4. PT!Descend(w, va, n) = D
  BY <1>2, <1>3 DEF PT!Descend
<1> QED BY <1>1, <1>4

LEMMA SameMapPage ==
  \A root, va, pa, flags : P!map_page(root, va, pa, flags) = PT!map_page(root, va, pa, flags)
<1> TAKE root, va, pa, flags
<1> DEFINE start == [ok |-> root # P!nullptr /\ P!is_page_aligned(va) /\ P!is_page_aligned(pa),
                     tables |-> mem, avail |-> FreePages, table |-> root]
           half  == P!Descend(start, va, 2)
           w     == P!Descend(half, va, 1)
           i     == P!vpn_index(va, 0)
           taken == P!pte_valid(w.tables[w.table][i])
           leaf  == P!make_pte(pa, flags \cup {"V"})
           M == IF ~w.ok \/ taken
                THEN [w EXCEPT !.ok = FALSE]
                ELSE [w EXCEPT !.tables[w.table][i] = leaf]
<1>1. P!map_page(root, va, pa, flags) = M
  BY DEF P!map_page, P!occupied
<1>2. start = [ok |-> root # PT!nullptr /\ PT!is_page_aligned(va) /\ PT!is_page_aligned(pa),
               tables |-> mem, avail |-> FreePages, table |-> root]
  BY SameConstants, SameArithmetic
<1>3. PT!Descend(start, va, 2) = half /\ PT!Descend(half, va, 1) = w
  BY SameDescend
<1>4. /\ PT!vpn_index(va, 0) = i /\ PT!make_pte(pa, flags \cup {"V"}) = leaf
      /\ PT!pte_valid(w.tables[w.table][i]) = taken
  BY SameIndex, SameEntries
<1> HIDE DEF start, half, w, i, taken, leaf
<1>5. PT!map_page(root, va, pa, flags) = M
  BY <1>2, <1>3, <1>4 DEF PT!map_page, PT!occupied
<1> QED BY <1>1, <1>5

LEMMA SameMapRange ==
  ASSUME NEW va, NEW pa, NEW size, NEW flags, P!map_range(va, pa, size, flags)
  PROVE  PT!map_range(va, pa, size, flags)
<1>1. /\ P!aligned(va, pa) = PT!aligned(va, pa)
      /\ P!range_end(va, size) = PT!range_end(va, size)
  BY SameAligned, SameRangeEnd
<1> QED BY <1>1 DEF P!map_range, PT!map_range

LEMMA SameRegions == P!Regions = PT!Regions
BY SameConstants, SameArithmetic, SameAlignUp
   DEF P!Regions, PT!Regions, P!map_device_region, PT!map_device_region

LEMMA SameAllocRoot ==
  ASSUME P!AllocRoot
  PROVE  PT!AllocRoot
BY SameAlloc, SameRegions DEF P!AllocRoot, PT!AllocRoot

LEMMA SameMapRegion ==
  ASSUME P!MapRegion
  PROVE  PT!MapRegion
BY SameMapRange DEF P!MapRegion, PT!MapRegion

LEMMA SameMapTurn ==
  ASSUME P!MapTurn
  PROVE  PT!MapTurn
<1>1. PICK l \in loop : P!Turn(l)
  BY DEF P!MapTurn
<1>2. /\ P!plus(l.cur_va, kPageSize) = PT!plus(l.cur_va, kPageSize)
      /\ P!plus(l.cur_pa, kPageSize) = PT!plus(l.cur_pa, kPageSize)
      /\ P!map_page(g_kernel_page_table, l.cur_va, l.cur_pa, l.flags)
           = PT!map_page(g_kernel_page_table, l.cur_va, l.cur_pa, l.flags)
  BY SameArithmetic, SameMapPage
<1>3. PT!Turn(l)
  BY <1>1, <1>2 DEF P!Turn, PT!Turn
<1> QED BY <1>3 DEF P!MapTurn, PT!MapTurn

LEMMA SameEnable ==
  ASSUME P!enable_sv39
  PROVE  PT!enable_sv39
BY DEF P!enable_sv39, PT!enable_sv39, P!make_satp, PT!make_satp

LEMMA SameCall ==
  ASSUME NEW va, NEW pa, NEW size, P!CallMapRange(va, pa, size)
  PROVE  PT!CallMapRange(va, pa, size)
BY SameMapRange, SameConstants DEF P!CallMapRange, PT!CallMapRange

LEMMA SameUnmap ==
  ASSUME NEW va, P!CallUnmap(va)
  PROVE  PT!CallUnmap(va)
<1> DEFINE root == g_kernel_page_table
           e2   == mem[root][P!vpn_index(va, 2)]
           t1   == P!pte_to_pa(e2)
           e1   == mem[t1][P!vpn_index(va, 1)]
           t0   == P!pte_to_pa(e1)
           L    == IF \/ root = P!nullptr
                      \/ ~P!pte_valid(e2) \/ P!pte_leaf(e2)
                      \/ ~P!pte_valid(e1) \/ P!pte_leaf(e1)
                   THEN P!nullptr ELSE t0
<1>1. P!LeafTable(root, va) = L
  BY DEF P!LeafTable
<1>2. PT!LeafTable(root, va) = L
  <2>1. \A n : PT!vpn_index(va, n) = P!vpn_index(va, n)
    BY SameIndex
  <2>2. /\ PT!pte_to_pa(e2) = t1 /\ PT!pte_to_pa(e1) = t0
        /\ PT!pte_valid(e2) = P!pte_valid(e2) /\ PT!pte_leaf(e2) = P!pte_leaf(e2)
        /\ PT!pte_valid(e1) = P!pte_valid(e1) /\ PT!pte_leaf(e1) = P!pte_leaf(e1)
        /\ PT!nullptr = P!nullptr
    BY SameEntries, SameConstants
  <2> HIDE DEF t1, t0
  <2> QED BY <2>1, <2>2 DEF PT!LeafTable
<1> HIDE DEF L
<1>3. PT!unmap_page(root, va)
  <2>1. P!unmap_page(root, va)
    BY DEF P!CallUnmap
  <2>2. /\ PT!vpn_index(va, 0) = P!vpn_index(va, 0) /\ PT!nullptr = P!nullptr
        /\ PT!ZeroPte = P!ZeroPte /\ PT!is_page_aligned(va) = P!is_page_aligned(va)
    BY SameIndex, SameConstants, SameArithmetic
  <2>3. \A e : PT!pte_valid(e) = P!pte_valid(e) /\ PT!pte_leaf(e) = P!pte_leaf(e)
    BY SameEntries
  <2> QED BY <1>1, <1>2, <2>1, <2>2, <2>3 DEF P!unmap_page, PT!unmap_page
<1>4. P!Kernel(va) <=> PT!Kernel(va)
  BY SameArithmetic, SameAlignUp DEF P!Kernel, PT!Kernel
<1> QED BY <1>3, <1>4 DEF P!CallUnmap, PT!CallUnmap

LEMMA SameTranslation == \A root, va : P!virt_to_phys(root, va) = PT!virt_to_phys(root, va)
<1> TAKE root, va
<1> DEFINE e2 == mem[root][P!vpn_index(va, 2)]
           t1 == P!pte_to_pa(e2)
           e1 == mem[t1][P!vpn_index(va, 1)]
           t0 == P!pte_to_pa(e1)
           e0 == mem[t0][P!vpn_index(va, 0)]
           W  == IF P!pte_leaf(e2) \/ ~P!pte_valid(e2) THEN e2
                 ELSE IF P!pte_leaf(e1) \/ ~P!pte_valid(e1) THEN e1 ELSE e0
<1>1. P!Walk(va, root) = W
  BY DEF P!Walk
<1>2. PT!Walk(va, root) = W
  <2>1. \A n : PT!vpn_index(va, n) = P!vpn_index(va, n)
    BY SameIndex
  <2>2. /\ PT!pte_to_pa(e2) = t1 /\ PT!pte_to_pa(e1) = t0
        /\ PT!pte_valid(e2) = P!pte_valid(e2) /\ PT!pte_leaf(e2) = P!pte_leaf(e2)
        /\ PT!pte_valid(e1) = P!pte_valid(e1) /\ PT!pte_leaf(e1) = P!pte_leaf(e1)
    BY SameEntries
  <2> HIDE DEF t1, t0
  <2> QED BY <2>1, <2>2 DEF PT!Walk
<1> HIDE DEF W
<1> QED BY <1>1, <1>2, SameEntries, SameConstants, SameArithmetic
    DEF P!virt_to_phys, PT!virt_to_phys

LEMMA SameCounts == \A S : P!Cardinality(S) = Cardinality(S) /\ PT!Cardinality(S) = Cardinality(S)
BY DEF P!Cardinality, PT!Cardinality, Cardinality

LEMMA SameNeeds == P!KernelBytes = PT!KernelBytes /\ P!TablesNeeded = PT!TablesNeeded
<1>1. P!KernelBytes = PT!KernelBytes
  BY DEF P!KernelBytes, PT!KernelBytes
<1> QED BY <1>1, SameCounts DEF P!TablesNeeded, PT!TablesNeeded

LEMMA SameLevels ==
  /\ \A S : P!Links(S) = PT!Links(S) /\ P!Below(S) = PT!Below(S)
  /\ \A n : P!Level(n) = PT!Level(n)
<1>1. ASSUME NEW S PROVE P!Links(S) = PT!Links(S)
  BY SameConstants, SameEntries DEF P!Links, PT!Links
<1>2. ASSUME NEW S PROVE P!Below(S) = PT!Below(S)
  BY <1>1, SameEntries DEF P!Below, PT!Below
<1>3. ASSUME NEW n PROVE P!Level(n) = PT!Level(n)
  BY <1>2, SameConstants DEF P!Level, PT!Level
<1> QED BY <1>1, <1>2, <1>3

LEMMA SameAccount ==
  ASSUME PT!FramesAccounted
  PROVE  P!FramesAccounted
BY SameLevels, SameCounts DEF P!FramesAccounted, PT!FramesAccounted

-----------------------------------------------------------------------------
(* The allocator and the tables together. *)

Whole == Cardinality(pool) >= PT!TablesNeeded

(* Before kmain runs pmm_init nobody uses page tables. *)
Before ==
  /\ \E g \in Garbage : mem = [f \in DramPages |-> [i \in PT!Index |-> g]]
  /\ g_kernel_page_table = PT!nullptr /\ satp = [mode |-> "Bare", ppn |-> 0]
  /\ todo = <<>> /\ loop = {} /\ granted = {}
  /\ tables = {} /\ others = owned

(* kmain's call of pmm_init. *)
Platform == \E image \in Images : config = [managed |-> kDram, reserved |-> <<image>>]

(* Behind it a page that is handed out is a table or somebody else's. *)
Holders ==
  /\ owned = tables \cup others /\ tables \cap others = {}
  /\ Platform /\ pool \subseteq DramPages
  /\ phase # "paging" => others = {}

Built ==
  /\ PT!SInv /\ Holders
  /\ (phase = "regions" /\ Whole) => PT!BootInv
  /\ (phase = "paging" /\ Whole) => PT!Kept
  /\ satp.mode = "Sv39" => PT!Enabled

MInv ==
  /\ PInv
  /\ phase = "pmm" => Before
  /\ phase # "pmm" => Built

LEMMA FramesAreDram == PT!Frames = DramPages
BY DEF PT!Frames

LEMMA PoolInDram == PInv /\ Platform => pool \subseteq DramPages
<1> SUFFICES ASSUME PInv, config.managed = kDram, NEW pa \in pool
             PROVE  pa \in DramPages
  BY DEF Platform
<1>1. Configured
  BY DEF PInv, Fresh
<1>2. PICK i \in Pages : pa = index_to_pa(i)
  BY <1>1 DEF Configured, Accounted
<1>3. /\ pa \in Addr /\ pa % kPageSize = 0
      /\ kDram.base <= pa /\ pa + kPageSize <= kDram.base + kDram.size
  BY <1>1, <1>2, PageAt DEF Configured, Pages, index_to_pa
<1>4. kDram.base \in Nat /\ kDram.size \in Nat /\ kPageSize \in Nat \ {0} /\ pa \in Nat
  BY <1>3, PageAssumption, MemoryAssumption DEF PhysicalRange, Addr
<1>5. pa \in kDram.base..(kDram.base + kDram.size - 1)
  BY <1>3, <1>4
<1> QED BY <1>3, <1>5 DEF DramPages, is_page_aligned

LEMMA TablesStart == PT!Init => PT!SInv
BY Assumed, PT!SpaceInit

(* pmm_init over DRAM leaves tables and allocator where PageTables starts. *)
LEMMA PlatformBuilds ==
  ASSUME MInv, PInv', PlatformPmmInit
  PROVE  Built'
<1>1. PICK image \in Images : PmmInit(kDram, <<image>>)
  BY DEF PlatformPmmInit
<1>2. /\ phase = "pmm" /\ phase' = "root" /\ others' = {}
      /\ UNCHANGED <<mem, g_kernel_page_table, satp, todo, loop, granted, tables>>
      /\ owned' = {} /\ pool' = FreePages'
      /\ config' = [managed |-> kDram, reserved |-> <<image>>]
  BY <1>1 DEF PlatformPmmInit, PmmInit
<1>3. Before
  BY <1>2 DEF MInv
<1>4. pool' \subseteq DramPages
  <2>1. PInv' /\ Platform' => (pool \subseteq DramPages)'
    BY PoolInDram, PTL
  <2> QED BY <1>2, <2>1 DEF Platform, DramPages
<1>5. Holders'
  BY <1>2, <1>3, <1>4 DEF Holders, Before, Platform, DramPages
<1>6. PT!Init'
  BY <1>2, <1>3, <1>4, FramesAreDram DEF PT!Init, Before
<1>7. PT!SInv'
  <2>1. PT!Init' => PT!SInv'
    BY TablesStart, PTL
  <2> QED BY <1>6, <2>1
<1>8. satp'.mode = "Bare"
  BY <1>2, <1>3 DEF Before
<1> QED BY <1>2, <1>5, <1>7, <1>8 DEF Built

(* Pages that are drawn for tables are nobody else's. *)
LEMMA DrawHolders ==
  ASSUME PInv, Holders, NEW pages \in SUBSET FreePages, Draw(pages),
         phase' = phase \/ phase # "paging"
  PROVE  Holders'
<1>1. /\ owned' = owned \cup pages /\ tables' = tables \cup pages
      /\ UNCHANGED <<config, pool, others>>
  BY DEF Draw
<1>2. owned \cap FreePages = {}
  BY Conserved DEF PoolConserved
<1> QED BY <1>1, <1>2 DEF Holders, Platform, DramPages

LEMMA EnoughIs == (Holders /\ phase # "paging") => (PT!Enough <=> Whole)
BY SameCounts DEF Holders, PT!Enough, Whole

LEMMA AllocRootBuilds ==
  ASSUME MInv, PInv', AllocRoot
  PROVE  Built'
<1> DEFINE pages == IF FreePages = {} THEN {} ELSE {Min(FreePages)}
<1>1. Draw(pages) /\ PT!AllocRoot
  BY SameAllocRoot DEF AllocRoot
<1>2. /\ phase = "root" /\ phase' = "regions" /\ satp' = satp
      /\ UNCHANGED <<pool, others>>
  BY <1>1 DEF PT!AllocRoot, Draw
<1>3. Built
  BY <1>2 DEF MInv
<1>4. pages \in SUBSET FreePages
  <2>1. FreePages \in SUBSET Nat
    <3>1. FreePages \subseteq DramPages
      BY <1>3, Conserved DEF MInv, PoolConserved, Built, Holders
    <3>2. kDram.base \in Nat
      BY MemoryAssumption DEF PhysicalRange, Addr
    <3> QED BY <3>1, <3>2 DEF DramPages
  <2> QED BY <2>1, Least
<1> HIDE DEF pages
<1>5. Holders'
  BY <1>1, <1>2, <1>3, <1>4, DrawHolders DEF MInv, Built
<1>6. PT!SInv'
  BY <1>1, <1>3, Assumed, PT!SpaceAllocRoot DEF Built
<1>7. Whole => PT!BootInv'
  <2>1. Whole => PT!Enough
    BY <1>2, <1>3, EnoughIs DEF Built
  <2> QED BY <1>1, <1>3, <2>1, Assumed, PT!BootAllocRoot DEF Built
<1>8. satp'.mode # "Sv39"
  BY <1>2, <1>3 DEF Built, PT!Enabled
<1>9. Whole' => Whole
  BY <1>2 DEF Whole, PT!TablesNeeded
<1> QED BY <1>2, <1>5, <1>6, <1>7, <1>8, <1>9 DEF Built

(* Steps that move no page. *)
LEMMA HoldersStay ==
  ASSUME Holders, UNCHANGED <<vars, tables, others>>, phase' = phase \/ phase' = "paging"
  PROVE  Holders'
BY DEF Holders, Platform, vars, DramPages

LEMMA MapRegionBuilds ==
  ASSUME MInv, MapRegion
  PROVE  Built'
<1>1. PT!MapRegion /\ UNCHANGED <<vars, tables, others>>
  BY SameMapRegion DEF MapRegion
<1>2. /\ UNCHANGED <<pool, satp, phase, g_kernel_page_table>> /\ granted \subseteq granted'
      /\ todo # <<>>
  BY <1>1 DEF PT!MapRegion, PT!map_range, vars
<1>3. Built
  BY <1>2 DEF MInv, Before
<1>4. Holders' /\ PT!SInv'
  BY <1>1, <1>2, <1>3, HoldersStay, Assumed, PT!SpaceMapRegion DEF Built
<1>5. (phase = "regions" /\ Whole) => PT!BootInv'
  BY <1>1, <1>3, Assumed, PT!BootMapRegion DEF Built
<1>6. PT!Kept => PT!Kept'
  BY <1>2 DEF PT!Kept
<1>7. PT!Enabled => PT!Enabled'
  BY <1>2 DEF PT!Enabled
<1>8. Whole' => Whole
  BY <1>2 DEF Whole, PT!TablesNeeded
<1> QED BY <1>2, <1>3, <1>4, <1>5, <1>6, <1>7, <1>8 DEF Built

LEMMA MapTurnBuilds ==
  ASSUME MInv, MapTurn
  PROVE  Built'
<1>1. PICK l \in loop :
        /\ Draw(FreePages \ P!map_page(g_kernel_page_table, l.cur_va, l.cur_pa, l.flags).avail)
        /\ P!MapTurn
  BY DEF MapTurn
<1>2. PT!MapTurn
  BY <1>1, SameMapTurn
<1>3. UNCHANGED <<pool, satp, phase, g_kernel_page_table>>
  BY <1>1, <1>2 DEF PT!MapTurn, Draw
<1>4. Built
  BY <1>1 DEF MInv, Before
<1>5. Holders'
  <2>1. FreePages \ P!map_page(g_kernel_page_table, l.cur_va, l.cur_pa, l.flags).avail
          \in SUBSET FreePages
    OBVIOUS
  <2> QED BY <1>1, <1>3, <1>4, <2>1, DrawHolders DEF MInv, Built
<1>6. PT!SInv'
  BY <1>2, <1>4, Assumed, PT!SpaceMapTurn DEF Built
<1>7. (phase = "regions" /\ Whole) => PT!BootInv'
  <2>1. (phase = "regions" /\ Whole) => PT!Enough
    BY <1>4, EnoughIs DEF Built
  <2> QED BY <1>2, <1>4, <2>1, Assumed, PT!BootMapTurn DEF Built
<1>8. PT!Kept => PT!Kept'
  BY <1>2, Assumed, PT!KeptTurn
<1>9. PT!Enabled => PT!Enabled'
  BY <1>3 DEF PT!Enabled
<1>10. Whole' => Whole
  BY <1>3 DEF Whole, PT!TablesNeeded
<1> QED BY <1>3, <1>4, <1>5, <1>6, <1>7, <1>8, <1>9, <1>10 DEF Built

LEMMA EnableBuilds ==
  ASSUME MInv, EnablePaging
  PROVE  Built'
<1>1. PT!enable_sv39 /\ UNCHANGED <<vars, tables, others>>
  BY SameEnable DEF EnablePaging
<1>2. phase = "regions" /\ phase' = "paging" /\ pool' = pool
  BY <1>1 DEF PT!enable_sv39, vars
<1>3. Built
  BY <1>2 DEF MInv
<1>4. Holders' /\ PT!SInv'
  BY <1>1, <1>2, <1>3, HoldersStay, Assumed, PT!SpaceEnable DEF Built
<1>5. Whole => PT!Kept'
  BY <1>1, <1>2, <1>3, Assumed, PT!EnableGrants DEF Built
<1>6. PT!Enabled'
  BY <1>1, <1>3, Assumed, PT!EnableSets DEF Built
<1>7. Whole' => Whole
  BY <1>2 DEF Whole, PT!TablesNeeded
<1> QED BY <1>2, <1>4, <1>5, <1>6, <1>7 DEF Built

(* Behind boot: what the tables promised stays so, whoever else works. *)
LEMMA PagingBuilds ==
  ASSUME Built, PT!SInv', Holders', phase = "paging", PT!Kept => PT!Kept',
         UNCHANGED <<pool, satp, phase, g_kernel_page_table>>
  PROVE  Built'
<1>1. PT!Enabled => PT!Enabled'
  BY DEF PT!Enabled
<1>2. Whole' => Whole
  BY DEF Whole, PT!TablesNeeded
<1> QED BY <1>1, <1>2 DEF Built

LEMMA MapCallBuilds ==
  ASSUME MInv, MapCall
  PROVE  Built'
<1>1. PICK va \in CallVAs, pa \in CallPAs, size \in CallSizes :
        UNCHANGED <<vars, tables, others>> /\ P!CallMapRange(va, pa, size)
  BY DEF MapCall
<1>2. PT!CallMapRange(va, pa, size)
  BY <1>1, SameCall
<1>3. phase = "paging" /\ UNCHANGED <<pool, satp, phase, g_kernel_page_table>>
  BY <1>1, <1>2 DEF PT!CallMapRange, vars
<1>4. Built
  BY <1>3 DEF MInv
<1>5. Holders' /\ PT!SInv' /\ (PT!Kept => PT!Kept')
  BY <1>1, <1>2, <1>3, <1>4, HoldersStay, Assumed, PT!SpaceCallMapRange, PT!KeptCall DEF Built
<1> QED BY <1>3, <1>4, <1>5, PagingBuilds

LEMMA UnmapCallBuilds ==
  ASSUME MInv, UnmapCall
  PROVE  Built'
<1>1. PICK va \in CallVAs : UNCHANGED <<vars, tables, others>> /\ P!CallUnmap(va)
  BY DEF UnmapCall
<1>2. PT!CallUnmap(va)
  BY <1>1, SameUnmap
<1>3. phase = "paging" /\ UNCHANGED <<pool, satp, phase, g_kernel_page_table>>
  BY <1>1, <1>2 DEF PT!CallUnmap, vars
<1>4. Built
  BY <1>3 DEF MInv
<1>5. Holders' /\ PT!SInv' /\ (PT!Kept => PT!Kept')
  BY <1>1, <1>2, <1>3, <1>4, HoldersStay, Assumed, PT!SpaceUnmap, PT!KeptUnmap DEF Built
<1> QED BY <1>3, <1>4, <1>5, PagingBuilds

LEMMA OtherAllocsBuilds ==
  ASSUME MInv, PInv', OtherAllocs
  PROVE  Built'
<1>1. PICK page : owned' = owned \cup {page} /\ page \in FreePages
  BY DEF OtherAllocs, Alloc, FirstFree, FreePages
<1>2. /\ others' = others \cup (owned' \ owned) /\ phase = "paging"
      /\ UNCHANGED <<mem, g_kernel_page_table, satp, phase, todo, loop, granted, tables>>
      /\ UNCHANGED <<config, pool>>
  BY DEF OtherAllocs, Alloc, tvars
<1>3. Built
  BY <1>2 DEF MInv
<1>4. owned \cup FreePages = pool /\ owned \cap FreePages = {}
  BY Conserved DEF MInv, PoolConserved
<1>5. owned' \cup FreePages' = pool' /\ owned' \cap FreePages' = {}
  <2>1. PInv' => PoolConserved'
    BY Conserved, PTL
  <2> QED BY <2>1 DEF PoolConserved
<1>6. /\ FreePages' = FreePages \ {page} /\ others' = others \cup {page}
      /\ (pool \ others)' = (pool \ others) \ {page}
  BY <1>1, <1>2, <1>4, <1>5
<1>7. Holders'
  BY <1>1, <1>2, <1>3, <1>4, <1>6 DEF Built, Holders, Platform, DramPages
<1>8. PT!SInv'
  <2>1. (pool \ others)' \in SUBSET DramPages
    BY <1>2, <1>3 DEF Built, Holders
  <2> QED BY <1>1, <1>2, <1>3, <1>6, <2>1, Assumed, PT!OthersTake DEF Built
<1>9. PT!Kept => PT!Kept'
  BY <1>2 DEF PT!Kept
<1> QED BY <1>2, <1>3, <1>7, <1>8, <1>9, PagingBuilds

LEMMA OtherFreesBuilds ==
  ASSUME MInv, PInv', OtherFrees
  PROVE  Built'
<1>1. PICK page \in others : Free(page) /\ others' = others \ {page}
  BY DEF OtherFrees
<1>2. /\ owned' = owned \ {page} /\ phase = "paging"
      /\ UNCHANGED <<mem, g_kernel_page_table, satp, phase, todo, loop, granted, tables>>
      /\ UNCHANGED <<config, pool>>
  BY <1>1 DEF OtherFrees, Free, tvars
<1>3. Built
  BY <1>2 DEF MInv
<1>4. owned \cup FreePages = pool /\ owned \cap FreePages = {}
  BY Conserved DEF MInv, PoolConserved
<1>5. owned' \cup FreePages' = pool' /\ owned' \cap FreePages' = {}
  <2>1. PInv' => PoolConserved'
    BY Conserved, PTL
  <2> QED BY <2>1 DEF PoolConserved
<1>6. page \in owned /\ page \in DramPages /\ owned = tables \cup others
      /\ tables \cap others = {} /\ pool \subseteq DramPages
  BY <1>1, <1>3, <1>4 DEF Built, Holders
<1>7. /\ FreePages' = FreePages \cup {page} /\ page \notin pool \ others
      /\ (pool \ others)' = (pool \ others) \cup {page}
  BY <1>1, <1>2, <1>4, <1>5, <1>6
<1>8. Holders'
  BY <1>1, <1>2, <1>3 DEF Built, Holders, Platform, DramPages
<1>9. PT!SInv'
  <2>1. (pool \ others)' \in SUBSET DramPages /\ page \in PT!Frames
    BY <1>2, <1>6, FramesAreDram
  <2> QED BY <1>2, <1>3, <1>7, <2>1, Assumed, PT!OthersGive DEF Built
<1>10. PT!Kept => PT!Kept'
  BY <1>2 DEF PT!Kept
<1> QED BY <1>2, <1>3, <1>8, <1>9, <1>10, PagingBuilds

LEMMA OtherWritesBuilds ==
  ASSUME MInv, OtherWrites
  PROVE  Built'
<1>1. PICK pa \in others, g \in Garbage : mem' = [mem EXCEPT ![pa] = [i \in P!Index |-> g]]
  BY DEF OtherWrites
<1>2. /\ phase = "paging" /\ UNCHANGED <<vars, tables, others>>
      /\ UNCHANGED <<g_kernel_page_table, satp, phase, todo, loop, granted>>
  BY DEF OtherWrites
<1>3. Built /\ UNCHANGED pool /\ FreePages' = FreePages
  BY <1>2 DEF MInv, vars, FreePages, index_to_pa, used_index
<1>4. mem \in PT!Contents
  BY <1>3 DEF Built, PT!SInv, PT!TInv, PT!TypeOK, PT!Contents
<1>5. mem' \in PT!Contents
  <2>1. g \in PT!Pte
    BY Assumed DEF PT!TableAssumption
  <2> QED BY <1>1, <1>4, <2>1, SameConstants DEF PT!Contents
<1>6. \A f \in pool \ others : mem'[f] = mem[f]
  <2>1. pool \subseteq PT!Frames
    BY <1>3, FramesAreDram DEF Built, Holders
  <2> QED BY <1>1, <1>4, <2>1 DEF PT!Contents
<1>7. PT!SInv'
  BY <1>2, <1>3, <1>5, <1>6, Assumed, PT!OthersWrite DEF Built
<1>8. Holders'
  BY <1>2, <1>3, HoldersStay DEF Built
<1>9. PT!Kept => PT!Kept'
  BY <1>2 DEF PT!Kept
<1> QED BY <1>2, <1>3, <1>7, <1>8, <1>9, PagingBuilds

LEMMA StutterBuilds ==
  ASSUME MInv, phase # "pmm", UNCHANGED mvars
  PROVE  Built'
<1>1. UNCHANGED <<mem, g_kernel_page_table, satp, phase, todo, loop, granted, tables, others>>
      /\ UNCHANGED vars
  BY DEF mvars, tvars
<1>2. Built /\ pool' = pool /\ FreePages' = FreePages
  BY <1>1 DEF MInv, vars, FreePages, index_to_pa, used_index
<1>3. Holders'
  BY <1>1, <1>2, HoldersStay DEF Built
<1>4. UNCHANGED PT!vars
  BY <1>1, <1>2 DEF PT!vars
<1>5. PT!SInv'
  BY <1>2, <1>4, Assumed, PT!SpaceStutter DEF Built
<1>6. PT!BootInv => PT!BootInv'
  <2>1. PT!Queue => PT!Queue'
    BY <1>1 DEF PT!Queue, PT!Started
  <2>2. PT!Sparse => PT!Sparse'
    BY <1>1 DEF PT!Sparse, PT!Reached, PT!Started
  <2> QED BY <1>1, <2>1, <2>2 DEF PT!BootInv
<1>7. PT!Kept => PT!Kept'
  BY <1>1 DEF PT!Kept
<1>8. PT!Enabled => PT!Enabled'
  BY <1>1 DEF PT!Enabled
<1>9. Whole' => Whole
  BY <1>2 DEF Whole, PT!TablesNeeded
<1> QED BY <1>1, <1>2, <1>3, <1>5, <1>6, <1>7, <1>8, <1>9 DEF Built

LEMMA TogetherNext ==
  ASSUME MInv, [MemNext]_mvars
  PROVE  MInv'
<1>1. PInv'
  BY MemNextKeepsInv DEF MInv
<1>2. ASSUME phase' # "pmm", Built' PROVE MInv'
  BY <1>1, <1>2 DEF MInv
<1>3. Built' => phase' # "pmm"
  BY DEF Built, PT!SInv, PT!TInv, PT!TypeOK
<1>4. CASE phase = "pmm" /\ (AllocatorAlone \/ UNCHANGED mvars)
  <2>1. others' = owned' /\ UNCHANGED <<tvars, tables>>
    BY <1>4 DEF AllocatorAlone, mvars, vars, MInv, Before
  <2>2. Before' /\ phase' = "pmm"
    BY <1>4, <2>1 DEF MInv, Before, tvars, DramPages
  <2> QED BY <1>1, <2>2 DEF MInv
<1>5. CASE phase # "pmm" /\ UNCHANGED mvars
  BY <1>2, <1>3, <1>5, StutterBuilds
<1>6. CASE PlatformPmmInit \/ AllocRoot \/ MapRegion \/ MapTurn \/ EnablePaging
  BY <1>1, <1>2, <1>3, <1>6, PlatformBuilds, AllocRootBuilds, MapRegionBuilds, MapTurnBuilds,
     EnableBuilds
<1>7. CASE MapCall \/ UnmapCall \/ OtherAllocs \/ OtherFrees \/ OtherWrites
  BY <1>1, <1>2, <1>3, <1>7, MapCallBuilds, UnmapCallBuilds, OtherAllocsBuilds,
     OtherFreesBuilds, OtherWritesBuilds
<1> QED BY <1>4, <1>5, <1>6, <1>7 DEF MemNext, AllocatorAlone

LEMMA TogetherAlways == MemSpec => []MInv
<1>1. MemInit => MInv
  BY SameConstants DEF MemInit, Init, MInv, PInv, Fresh, Before
<1> QED BY <1>1, TogetherNext, PTL DEF MemSpec

(* Without a root there is no table, and all pages of the pool are free or *)
(* handed out.                                                             *)
LEMMA NoTables ==
  ASSUME PInv, Before
  PROVE  /\ P!FramesAccounted
         /\ P!Level(2) \cup P!Level(1) \cup P!Level(0) = {}
<1>1. /\ \A S : P!Links(S) = {l \in S \X P!Index : P!pte_valid(mem[l[1]][l[2]])}
      /\ \A S : P!Below(S) = {P!pte_to_pa(mem[l[1]][l[2]]) : l \in P!Links(S)}
  BY DEF P!Links, P!Below
<1>2. P!Links({}) = {} /\ P!Below({}) = {}
  BY <1>1
<1>3. P!Level(2) = {} /\ P!Level(1) = {} /\ P!Level(0) = {}
  <2>1. {g_kernel_page_table} \ {P!nullptr} = {}
    BY SameConstants DEF Before
  <2> QED BY <1>2, <2>1 DEF P!Level
<1>4. pool \ others = FreePages
  BY Conserved DEF PoolConserved, Before
<1>5. P!Cardinality(FreePages) \in Nat /\ P!Cardinality({}) = 0
  <2>1. FreePages \in SUBSET (0..(AddrSpace - 1)) /\ 0 \in Int /\ AddrSpace - 1 \in Int
    <3>1. pool \subseteq Addr
      BY PInvTypes DEF TypeOK
    <3>2. FreePages \subseteq pool
      BY Conserved DEF PoolConserved
    <3>3. FreePages \subseteq 0..(AddrSpace - 1)
      BY <3>1, <3>2 DEF Addr
    <3> QED BY <3>3, PageAssumption
  <2>2. IsFiniteSet(FreePages)
    BY <2>1, FS_Interval, FS_Subset
  <2> QED BY <2>2, FS_CardinalityType, FS_EmptySet, SameCounts
<1>6. FreePages \cup P!Level(2) \cup P!Level(1) \cup P!Level(0) = FreePages
  BY <1>3
<1>7. P!Cardinality(FreePages) = P!Cardinality(FreePages) + P!Cardinality(P!Level(2))
        + P!Cardinality(P!Links(P!Level(2))) + P!Cardinality(P!Links(P!Level(1)))
  BY <1>2, <1>3, <1>5
<1> QED BY <1>3, <1>4, <1>6, <1>7 DEF P!FramesAccounted

(* The allocator and the tables agree: every page the bitmap has given     *)
(* away and nobody else holds is a table in exactly one place of the tree, *)
(* and clear of the kernel image (page_table.cpp:28-36, pmm.cpp:102-110,   *)
(* pmm_platform.cpp:8-22).                                                 *)
THEOREM TablesAreAccounted == MemSpec => []TablesAccounted
<1>1. MInv => TablesAccounted
  <2> SUFFICES ASSUME MInv PROVE TablesAccounted
    OBVIOUS
  <2>1. CASE phase = "pmm"
    <3>1. PInv /\ Before /\ tables = {}
      BY <2>1 DEF MInv, Before
    <3> QED BY <3>1, NoTables DEF TablesAccounted
  <2>2. CASE phase # "pmm"
    <3>1. Built /\ PT!TInv
      BY <2>2 DEF MInv, Built, PT!SInv
    <3>2. P!FramesAccounted
      BY <3>1, Assumed, PT!TreeAccounts, SameAccount
    <3>3. tables = P!Level(2) \cup P!Level(1) \cup P!Level(0)
      <4>1. (pool \ others) \ FreePages = PT!Level(2) \cup PT!Level(1) \cup PT!Level(0)
        BY <3>1, Assumed, PT!TreeTables
      <4>2. tables = (pool \ others) \ FreePages
        BY <3>1, Conserved DEF MInv, PoolConserved, Built, Holders
      <4> QED BY <4>1, <4>2, SameLevels
    <3>4. tables \subseteq owned
      BY <3>1 DEF Built, Holders
    <3>5. OwnedAvoidReserved
      BY ClearOfReserved DEF MInv
    <3> QED BY <3>2, <3>3, <3>4, <3>5 DEF TablesAccounted, OwnedAvoidReserved
  <2> QED BY <2>1, <2>2
<1> QED BY <1>1, TogetherAlways, PTL

(* With as many pages as the regions need left by pmm_init, from the       *)
(* moment paging is on, the hart finds the kernel image, every page table  *)
(* and both devices at their own addresses, whatever other code allocates, *)
(* writes and frees (kernel_address_space.cpp:29-56, mmu.cpp:13-17).       *)
THEOREM KernelIsReachable == MemSpec => []KernelReachable
<1>1. MInv => KernelReachable
  <2> SUFFICES ASSUME MInv, satp.mode = "Sv39", Cardinality(pool) >= P!TablesNeeded
               PROVE  /\ \A n \in DOMAIN config.reserved :
                           \A b \in 0..(config.reserved[n].size - 1) :
                             P!virt_to_phys(satp.ppn * kPageSize, config.reserved[n].base + b)
                               = config.reserved[n].base + b
                      /\ \A pa \in P!KernelBytes \cup tables :
                           P!virt_to_phys(satp.ppn * kPageSize, pa) = pa
    BY DEF KernelReachable
  <2>1. Built
    BY DEF MInv, Before
  <2>2. PT!SInv /\ PT!Kept /\ satp.ppn * kPageSize = g_kernel_page_table
    BY <2>1, SameNeeds DEF Built, Whole, PT!Enabled
  <2>3. \A a \in P!KernelBytes : P!virt_to_phys(satp.ppn * kPageSize, a) = a
    BY <2>2, Assumed, PT!KeptIsMapped, SameNeeds, SameTranslation
  <2>4. kDram.base..(kDram.base + kDram.size - 1) \subseteq P!KernelBytes
    BY DEF P!KernelBytes
  <2>5. tables \subseteq P!KernelBytes
    BY <2>1, <2>4, Conserved DEF MInv, PoolConserved, Built, Holders, DramPages
  <2>6. ASSUME NEW n \in DOMAIN config.reserved, NEW b \in 0..(config.reserved[n].size - 1)
        PROVE  config.reserved[n].base + b \in P!KernelBytes
    <3>1. PICK image \in Images : config = [managed |-> kDram, reserved |-> <<image>>]
      BY <2>1 DEF Built, Holders, Platform
    <3>2. config.reserved[n] = image
      BY <3>1
    <3>3. /\ image.base \in Nat /\ image.size \in Nat
          /\ kDram.base \in Nat /\ kDram.size \in Nat
          /\ kDram.base <= image.base
          /\ image.base + image.size <= kDram.base + kDram.size
      BY MemoryAssumption, LayoutAssumption DEF PhysicalRange, Addr
    <3>4. image.base + b \in kDram.base..(kDram.base + kDram.size - 1)
      BY <2>6, <3>2, <3>3
    <3> QED BY <2>4, <3>2, <3>4
  <2> QED BY <2>3, <2>5, <2>6
<1> QED BY <1>1, TogetherAlways, PTL
=============================================================================
