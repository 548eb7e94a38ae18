------------------------------ MODULE MCEvent ------------------------------
(***************************************************************************)
(* The event has three threads and no parameter that could be large: TLC   *)
(* explores it whole.                                                      *)
(***************************************************************************)
EXTENDS Event
=============================================================================
