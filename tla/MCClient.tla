------------------------------ MODULE MCClient ------------------------------
(***************************************************************************)
(* Small clients for TLC.                                                  *)
(***************************************************************************)
EXTENDS Client

CONSTANTS s1, s2, p1, none

\* The server sends a message to every subscription, or two to the second only.
OneEach == [s \in Subs |-> 1]
TwoToSecond == [s \in Subs |-> IF s = s2 THEN 2 ELSE 0]

\* Who unsubscribes the first may cancel that.
FirstUnsub == {Unsub(s1)}
=============================================================================
