--------------------------- MODULE DataStructures ---------------------------
(***************************************************************************)
(* The data structures of kernel/lib/ds side by side: a list and a bitmap, *)
(* each with callers that use it in any order.                             *)
(***************************************************************************)
EXTENDS IntrusiveList, Bitmap

VARIABLE bitmap

dvars == <<vars, bitmap>>

(* The constructor takes the words as they are. *)
DInit == Init /\ bitmap \in Bitmaps

OnList == Next /\ UNCHANGED bitmap

(* Callers may name any bit, also one there is not. *)
ClearAll == bitmap' = clear_all(bitmap) /\ UNCHANGED vars
Set(b)   == bitmap' = set(bitmap, b) /\ UNCHANGED vars
Clear(b) == bitmap' = clear(bitmap, b) /\ UNCHANGED vars

OnBitmap == ClearAll \/ \E b \in Bit : Set(b) \/ Clear(b)

DNext == OnList \/ OnBitmap

DSpec == DInit /\ [][DNext]_dvars

-----------------------------------------------------------------------------
Count == bitmap.m_bit_count

(* The memory as one row of bits, and the set a bitmap stands for. *)
Row(m) ==
  {b \in Bit : \E w \in DOMAIN m.m_words, o \in Offsets :
                 b = w * kBitsPerWord + o /\ o \in m.m_words[w]}

SetOf(m) == Row(m) \cap 0..(m.m_bit_count - 1)

(* The two queries read the memory as a set of numbers below the count:    *)
(* test says who is in it, and to no other number yes; find_first_zero     *)
(* returns the least number missing, or -1.  At every count, no bits, a    *)
(* part of a word, whole words, and whatever the unused bits of the last   *)
(* word hold (bitmap.cpp:69-111).                                          *)
BitmapIsSet ==
  LET missing == (0..(Count - 1)) \ SetOf(bitmap)
  IN /\ \A b \in Bit : test(bitmap, b) <=> b \in SetOf(bitmap)
     /\ find_first_zero(bitmap) = IF missing = {} THEN -1 ELSE Min(missing)

(* What a call does to the memory, bit by bit.  set and clear change the   *)
(* bit they name and no other, and none at all when it is not below the    *)
(* count: not the unused bits of the word that they write.  clear_all      *)
(* leaves zeros below the count and, as it clears whole words, in the rest *)
(* of the last one; a word that begins at the count or behind it keeps     *)
(* every bit.  The count never changes (bitmap.cpp:41-67).                 *)
NeighboursUntouched ==
  [][LET mine == 0..(Count - 1)
         rest == {b \in Bit : (b \div kBitsPerWord) * kBitsPerWord >= Count}
     IN /\ Count' = Count
        /\ ClearAll => Row(bitmap') = Row(bitmap) \cap rest
        /\ \A b \in Bit :
             /\ Set(b)   => Row(bitmap') = Row(bitmap) \cup (mine \cap {b})
             /\ Clear(b) => Row(bitmap') = Row(bitmap) \ (mine \cap {b})]_dvars
=============================================================================
