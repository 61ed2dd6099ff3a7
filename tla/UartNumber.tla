----------------------------- MODULE UartNumber -----------------------------
(***************************************************************************)
(* UART::put_dec and UART::put_hex (drivers/uart/uart.cpp): the digits     *)
(* they print, each as its value and without the prefix 0x.                *)
(***************************************************************************)
EXTENDS Integers, Sequences, SequencesExt

CONSTANTS
  kWidth,       \* bits of the argument (64), a multiple of 4
  kBufSize      \* characters of put_dec's buffer (20)

Value == 0..(2 ^ kWidth - 1)

ASSUME NumberAssumption ==
  /\ kWidth \in Nat /\ kWidth > 0 /\ kWidth % 4 = 0
  /\ kBufSize \in Nat

(* put_dec's first loop: what it leaves in buf, the low digit first. *)
Filled[value \in Value] ==
  IF value = 0 THEN <<>> ELSE <<value % 10>> \o Filled[value \div 10]

(* Mutant: zero is left to the loop. *)
put_dec_zero(value) == Reverse(Filled[value])

(* The second loop prints from the end of buf. *)
put_dec(value) == IF value = 0 THEN <<0>> ELSE Reverse(Filled[value])

(* The loop over the shifts 60, 56, ..., 0. *)
put_hex(value) ==
  [n \in 1..(kWidth \div 4) |-> (value \div 2 ^ (kWidth - 4 * n)) % 16]

-----------------------------------------------------------------------------
Denotes(digits, base) == FoldLeft(LAMBDA n, d : n * base + d, 0, digits)
Digits(base) == 0..(base - 1)

(* The digits of a number denote it, in decimal with no leading zero and   *)
(* zero as one digit, in hexadecimal with every nibble, and put_dec's      *)
(* buffer has room for them.                                               *)
Prints(v) ==
  /\ put_dec(v) \in Seq(Digits(10)) /\ Denotes(put_dec(v), 10) = v
  /\ put_dec(v) # <<>> /\ (v # 0 => put_dec(v)[1] # 0)
  /\ Len(Filled[v]) <= kBufSize
  /\ put_hex(v) \in Seq(Digits(16)) /\ Denotes(put_hex(v), 16) = v
  /\ Len(put_hex(v)) = kWidth \div 4
=============================================================================
