------------------------------- MODULE Bitmap -------------------------------
(***************************************************************************)
(* kernel/lib/ds/bitmap.cpp: a bitmap over words that belong to its        *)
(* creator, and its operations as functions of it.  A word is the set of   *)
(* its bits that are 1.  The constructor clears nothing, so words may hold *)
(* anything, and behind the words of a bitmap lies memory that is somebody *)
(* else's.                                                                 *)
(***************************************************************************)
EXTENDS Integers, FiniteSets, FiniteSetsExt

CONSTANTS
  kBitsPerWord,   \* 64
  Words,          \* words of memory from m_words on
  Counts          \* the bit counts a bitmap is created with

Offsets == 0..(kBitsPerWord - 1)
Bit     == 0..(Words * kBitsPerWord - 1)

ASSUME BitmapAssumption ==
  /\ kBitsPerWord \in Nat \ {0} /\ Words \in Nat
  /\ Counts \subseteq 0..(Words * kBitsPerWord)

Bitmaps == [m_words : [0..(Words - 1) -> SUBSET Offsets], m_bit_count : Counts]

-----------------------------------------------------------------------------
(* Mutant: a word too many when the count fills its words. *)
word_count_for_bits_plus(n) == n \div kBitsPerWord + 1

word_count_for_bits(n) == (n + kBitsPerWord - 1) \div kBitsPerWord

word_index_for_bit(b) == b \div kBitsPerWord
bit_offset_for_bit(b) == b % kBitsPerWord

first_set_bit_offset(word) == IF word = {} THEN kBitsPerWord ELSE Min(word)

clear_all(m) ==
  [m EXCEPT !.m_words = [w \in DOMAIN @ |->
     IF w < word_count_for_bits(m.m_bit_count) THEN {} ELSE @[w]]]

set(m, b) ==
  IF b >= m.m_bit_count THEN m
  ELSE [m EXCEPT !.m_words[word_index_for_bit(b)] = @ \cup {bit_offset_for_bit(b)}]

clear(m, b) ==
  IF b >= m.m_bit_count THEN m
  ELSE [m EXCEPT !.m_words[word_index_for_bit(b)] = @ \ {bit_offset_for_bit(b)}]

test(m, b) ==
  b < m.m_bit_count /\ bit_offset_for_bit(b) \in m.m_words[word_index_for_bit(b)]

-----------------------------------------------------------------------------
(* find_first_zero *)

(* The word with the bits behind the count, in the last one, as if set. *)
masked(m, index) ==
  LET valid_bits == m.m_bit_count % kBitsPerWord
      last       == index = word_count_for_bits(m.m_bit_count) - 1
  IN m.m_words[index] \cup
       IF last /\ valid_bits # 0 THEN valid_bits..(kBitsPerWord - 1) ELSE {}

global_bit(m, index) ==
  index * kBitsPerWord + first_set_bit_offset(Offsets \ masked(m, index))

(* Mutant: full words are not skipped. *)
StopsAtFull(m, index) == global_bit(m, index) < m.m_bit_count

(* The scan returns at this word. *)
StopsAt(m, index) ==
  masked(m, index) # Offsets /\ global_bit(m, index) < m.m_bit_count

find_first_zero(m) ==
  LET stops == {i \in 0..(word_count_for_bits(m.m_bit_count) - 1) : StopsAt(m, i)}
  IN IF stops = {} THEN -1 ELSE global_bit(m, Min(stops))
=============================================================================
