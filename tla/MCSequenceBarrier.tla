------------------------- MODULE MCSequenceBarrier -------------------------
(***************************************************************************)
(* Small barriers for TLC.  The first sequence number is 7 and the type    *)
(* has three bits, so that 7 is the -1 the program starts with and the     *)
(* next number, 8, is stored as 0.                                         *)
(***************************************************************************)
EXTENDS SequenceBarrier

CONSTANTS c1, c2, p, k
=============================================================================
