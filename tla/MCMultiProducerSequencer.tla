---------------------- MODULE MCMultiProducerSequencer ----------------------
(***************************************************************************)
(* Small sequencers for TLC.  The type has four bits and the first number  *)
(* is 15, the -1 the program starts with: the next, 16, is stored as 0.    *)
(***************************************************************************)
EXTENDS MultiProducerSequencer, TLC

CONSTANTS c1, c2, p1, p2, k

\* Neither producers nor consumers differ in anything but what they do.
ThreadSymmetry == Permutations(Consumers) \cup Permutations(Producers)
=============================================================================
