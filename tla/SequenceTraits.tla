--------------------------- MODULE SequenceTraits ---------------------------
(***************************************************************************)
(* include/sequence_traits.h: the order of the sequence numbers.           *)
(*                                                                         *)
(* A sequence number is an unsigned integer of w bits and wraps around.    *)
(* The model keeps the unwrapped integer; what the program stores is its   *)
(* residue modulo 2^w, and everything the program computes with it goes    *)
(* through Difference, which reads that residue only.                      *)
(***************************************************************************)
EXTENDS Integers

CONSTANT HalfRange      \* 2^(w-1)

\* w >= 1; that HalfRange is a power of two is used nowhere.
ASSUME HalfRangeAssumption == HalfRange \in Nat \ {0}

Modulus == 2 * HalfRange

\* static_cast<value_type>(n): what the program stores for the integer n.
Wrap(n) == n % Modulus

\* static_cast<difference_type>(a - b): the unsigned subtraction wraps, the
\* cast to the signed type of the same width folds the upper half below zero.
Difference(a, b) ==
  LET d == Wrap(Wrap(a) - Wrap(b))
  IN  IF d < HalfRange THEN d ELSE d - Modulus

Precedes(a, b) == Difference(a, b) < 0

\* static_cast<value_type>(-1)
InitialSequence == -1
=============================================================================
