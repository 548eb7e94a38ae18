----------------------- MODULE MCSequenceBarrierGroup -----------------------
(***************************************************************************)
(* Small groups for TLC.                                                   *)
(***************************************************************************)
EXTENDS SequenceBarrierGroup

CONSTANTS b1, b2, c1, c2
=============================================================================
