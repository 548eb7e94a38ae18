----------------------------- MODULE MCFraming -----------------------------
(***************************************************************************)
(* Small streams for TLC: a payload that is empty, a plain one, one that   *)
(* is a line end, and one that looks like another control line.            *)
(***************************************************************************)
EXTENDS Framing

SomeBytes == {"x", "PING", CR, LF}

SomePayloads == {<<>>, <<"x">>, CRLF, <<"PING", CR, LF>>}
=============================================================================
