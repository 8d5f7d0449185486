--------------------------- MODULE MCCallExecution ---------------------------
(* CallExecution on small instances. *)
EXTENDS CallExecution

CONSTANTS call, other
TwoCalls == {call, other}
===============================================================================
