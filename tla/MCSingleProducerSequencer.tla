---------------------- MODULE MCSingleProducerSequencer ----------------------
(***************************************************************************)
(* A small queue for TLC.  The type has three bits and the first number is *)
(* 7, the -1 the program starts with: the next, 8, is stored as 0.         *)
(***************************************************************************)
EXTENDS SingleProducerSequencer

CONSTANTS p, c, k, m1, m2
=============================================================================
